---- MODULE Spec2Model ----
(***************************************************************************)
(* A model of the go-whatsapp webhook handler (pkg/webhook/handler.go),    *)
(* the signature check of pkg/client/client.go and the configuration       *)
(* checks of pkg/config.                                                   *)
(*                                                                         *)
(* Go strings that are only compared are TLA+ strings; the signature       *)
(* header, which the code slices, is a sequence of one-character strings.  *)
(* A Go pointer is a sequence of length 0 (nil) or 1.                      *)
(***************************************************************************)
EXTENDS Integers, Sequences, FiniteSets, TLC

\* ------------------------------------------------------------------ bounds

\* Concurrent deliveries in the concurrency specification.
MaxDeliveries == 2
\* Entries per payload, changes per entry and items per list in the
\* payloads of the traversal specification.
MaxEntries == 2
MaxChanges == 2
MaxItems == 2
\* Hex digits of a modelled MAC (the code's SHA-256 gives 64).
HexLen == 3

\* The longest list of buttons given to SendInteractiveButtons.
MaxButtonsTried == 5

\* ------------------------------------------------------------------ helpers

Nil == <<>>
Ptr(x) == <<x>>
IsNil(p) == p = <<>>
Deref(p) == p[1]

RECURSIVE SetToSeq(_)
SetToSeq(S) ==
    IF S = {} THEN <<>>
    ELSE LET x == CHOOSE x \in S : TRUE IN <<x>> \o SetToSeq(S \ {x})

RECURSIVE Flatten(_)
Flatten(seqs) == IF seqs = <<>> THEN <<>> ELSE Head(seqs) \o Flatten(Tail(seqs))

IndexOf(seq, x) == CHOOSE i \in 1..Len(seq) : seq[i] = x

\* ------------------------------------------------------------------ config

\* config.Config, the fields the handler reads.
Config(phone, access, verify, secret) ==
    [PhoneNumberID |-> phone, AccessToken |-> access,
     WebhookVerifyToken |-> verify, AppSecret |-> secret]

ValidatePhoneOnly(c) ==
    IF c.PhoneNumberID = "" THEN Ptr("WHATSAPP_PHONE_NUMBER_ID is required") ELSE Nil

\* Config.Validate: nil (<<>>) or an error.
Validate(c) ==
    IF c.PhoneNumberID = "" THEN Ptr("WHATSAPP_PHONE_NUMBER_ID is required")
    ELSE IF c.AccessToken = "" THEN Ptr("WHATSAPP_ACCESS_TOKEN is required")
    ELSE Nil

ValidateForWebhookNoToken(c) == Validate(c)

\* Config.ValidateForWebhook.
ValidateForWebhook(c) ==
    IF ~IsNil(Validate(c)) THEN Validate(c)
    ELSE IF c.WebhookVerifyToken = ""
         THEN Ptr("WHATSAPP_WEBHOOK_VERIFY_TOKEN is required for webhooks")
    ELSE Nil

\* ------------------------------------------------------------------ signature

Secrets == <<"", "s1", "s2">>

HexDigits == <<"0","1","2","3","4","5","6","7","8","9","a","b","c","d","e","f">>
UpperDigits == <<"0","1","2","3","4","5","6","7","8","9","A","B","C","D","E","F">>

RECURSIVE EncodeWith(_, _, _)
EncodeWith(digits, n, w) ==
    IF w = 0 THEN <<>>
    ELSE Append(EncodeWith(digits, n \div 16, w - 1), digits[(n % 16) + 1])

\* hex.EncodeToString: lower-case digits.
EncodeToString(n) == EncodeWith(HexDigits, n, HexLen)

\* The literal prefix and its length in VerifyWebhookSignature.
SigPrefix == <<"s","h","a","2","5","6","=">>
PrefixLen == 7

\* MAC of a body under a secret: an injective stand-in for HMAC-SHA256
\* (hmac.New(sha256.New, secret); mac.Write(payload); mac.Sum(nil)),
\* numbered by the body's and the secret's place among all modelled ones.
MacSum(bodyNo, secret) == bodyNo * Len(Secrets) + (IndexOf(Secrets, secret) - 1)

StripAlways(signature) ==
    IF Len(signature) >= PrefixLen
    THEN SubSeq(signature, PrefixLen + 1, Len(signature))
    ELSE signature

\* The prefix removal of VerifyWebhookSignature.
StripPrefix(signature) ==
    IF Len(signature) > PrefixLen /\ SubSeq(signature, 1, PrefixLen) = SigPrefix
    THEN SubSeq(signature, PrefixLen + 1, Len(signature))
    ELSE signature

\* Client.VerifyWebhookSignature(payload, signature) under c.config.AppSecret.
VerifyWebhookSignature(appSecret, bodyNo, signature) ==
    IF appSecret = "" THEN FALSE
    ELSE StripPrefix(signature) = EncodeToString(MacSum(bodyNo, appSecret))

\* ------------------------------------------------------------------ data model

\* models.MessageType constants and two values the switch of processMessage
\* has no case for.
MessageTypeText == "text"
MessageTypeImage == "image"
MessageTypeAudio == "audio"
MessageTypeVideo == "video"
MessageTypeDocument == "document"
MessageTypeSticker == "sticker"
MessageTypeLocation == "location"
MessageTypeContacts == "contacts"
MessageTypeInteractive == "interactive"
MessageTypeTemplate == "template"
MessageTypeReaction == "reaction"

\* models.MessageStatus constants.
StatusSent == "sent"
StatusDelivered == "delivered"
StatusRead == "read"
StatusFailed == "failed"

\* The payload fields of models.IncomingMessage that processMessage reads.
PayloadKinds ==
    {"text", "image", "audio", "video", "document", "sticker", "location",
     "contacts", "interactive", "reaction"}

MessageTypes ==
    {MessageTypeText, MessageTypeImage, MessageTypeAudio, MessageTypeVideo,
     MessageTypeDocument, MessageTypeSticker, MessageTypeLocation,
     MessageTypeContacts, MessageTypeInteractive, MessageTypeTemplate,
     MessageTypeReaction, "system"}

\* The fields of webhook.EventHandlers.
MessageHandlers ==
    {"OnTextMessage", "OnImageMessage", "OnVideoMessage", "OnAudioMessage",
     "OnDocumentMessage", "OnStickerMessage", "OnLocationMessage",
     "OnContactsMessage", "OnButtonReply", "OnListReply", "OnReactionMessage"}
StatusHandlers ==
    {"OnMessageSent", "OnMessageDelivered", "OnMessageRead", "OnMessageFailed"}
EventHandlers == MessageHandlers \cup StatusHandlers \cup {"OnError", "OnRawWebhook"}

\* Values of the type-specific payloads, one per field so that a payload read
\* from the wrong field shows.
IncomingMedia(k) ==
    [id |-> <<"id", k>>, mime_type |-> <<"mime", k>>, sha256 |-> <<"sha", k>>,
     caption |-> <<"caption", k>>]
IncomingDocument ==
    [id |-> <<"id", "document">>, mime_type |-> <<"mime", "document">>,
     sha256 |-> <<"sha", "document">>, filename |-> "a.pdf",
     caption |-> <<"caption", "document">>]
IncomingText == [body |-> "hi"]
LocationContent == [latitude |-> 1, longitude |-> 2, name |-> "home", address |-> "street"]
ContactContent == [name |-> "Carol"]
IncomingReaction == [message_id |-> "m0", emoji |-> "+1"]
InteractiveReply == [id |-> "b1", title |-> "Yes"]
InteractiveListReply == [id |-> "r1", title |-> "Row", description |-> "first row"]

\* models.IncomingInteractive.
IncomingInteractive(itype, button, list) ==
    [type |-> itype,
     button_reply |-> IF button THEN Ptr(InteractiveReply) ELSE Nil,
     list_reply |-> IF list THEN Ptr(InteractiveListReply) ELSE Nil]

InteractiveTypes == {"button_reply", "list_reply", "nfm_reply"}
Interactives ==
    { IncomingInteractive(t, b, l) : t \in InteractiveTypes, b \in BOOLEAN, l \in BOOLEAN }

\* models.IncomingMessage with the payload fields named in pop populated;
\* inter is the interactive field (a pointer).
IncomingMessage(id, from, type, pop, inter) ==
    [id |-> id, from |-> from, timestamp |-> "1700000000", type |-> type,
     context |-> Nil,
     text |-> IF "text" \in pop THEN Ptr(IncomingText) ELSE Nil,
     image |-> IF "image" \in pop THEN Ptr(IncomingMedia("image")) ELSE Nil,
     audio |-> IF "audio" \in pop THEN Ptr(IncomingMedia("audio")) ELSE Nil,
     video |-> IF "video" \in pop THEN Ptr(IncomingMedia("video")) ELSE Nil,
     document |-> IF "document" \in pop THEN Ptr(IncomingDocument) ELSE Nil,
     sticker |-> IF "sticker" \in pop THEN Ptr(IncomingMedia("sticker")) ELSE Nil,
     location |-> IF "location" \in pop THEN Ptr(LocationContent) ELSE Nil,
     contacts |-> IF "contacts" \in pop THEN <<ContactContent>> ELSE <<>>,
     interactive |-> inter,
     reaction |-> IF "reaction" \in pop THEN Ptr(IncomingReaction) ELSE Nil]

\* models.WebhookError, models.Conversation, models.Pricing.
WebhookError(code, title) == [code |-> code, title |-> title]
Conversation == [id |-> "conv1", origin |-> [type |-> "user_initiated"]]
Pricing == [billable |-> TRUE, category |-> "service"]

\* models.MessageStatusUpdate.
MessageStatusUpdate(id, status, errs, full) ==
    [id |-> id, status |-> status, timestamp |-> "1700000001", recipient_id |-> "999",
     conversation |-> IF full THEN Ptr(Conversation) ELSE Nil,
     pricing |-> IF full THEN Ptr(Pricing) ELSE Nil,
     errors |-> errs]

\* models.WebhookContact, WebhookMetadata, WebhookValue, WebhookChange,
\* WebhookEntry, WebhookPayload.
WebhookContact(waID, name) == [wa_id |-> waID, profile |-> [name |-> name]]
WebhookMetadata == [display_phone_number |-> "1555", phone_number_id |-> "100"]
WebhookValue(contacts, messages, statuses, errors) ==
    [metadata |-> WebhookMetadata, contacts |-> contacts, messages |-> messages,
     statuses |-> statuses, errors |-> errors]
WebhookChange(field, value) == [field |-> field, value |-> value]
WebhookEntry(id, changes) == [id |-> id, changes |-> changes]
WebhookPayload(entries) == [object |-> "whatsapp_business_account", entry |-> entries]

\* ------------------------------------------------------------------ dispatch

\* A handler table (*EventHandlers): its identity and the non-nil fields.
Table(id, reg) == [id |-> id, reg |-> reg]

\* One callback invocation: the field invoked and the event passed to it.
Call(handler, event) == [handler |-> handler, event |-> event]

FindContactLast(contacts, from) ==
    LET hits == { i \in 1..Len(contacts) : contacts[i].wa_id = from }
    IN IF hits = {} THEN Nil
       ELSE Ptr(contacts[CHOOSE i \in hits : \A j \in hits : i >= j])

\* The contact scan of processMessage: the first contact with the sender's
\* wa_id, or nil.
FindContact(contacts, from) ==
    LET hits == { i \in 1..Len(contacts) : contacts[i].wa_id = from }
    IN IF hits = {} THEN Nil
       ELSE Ptr(contacts[CHOOSE i \in hits : \A j \in hits : i <= j])

\* BaseMessageEvent as processMessage fills it.
BaseMessageEvent(msg, value) ==
    LET contact == FindContact(value.contacts, msg.from)
    IN [MessageID |-> msg.id, From |-> msg.from,
        ContactName |-> IF ~IsNil(contact) THEN Deref(contact).profile.name ELSE "",
        Timestamp |-> msg.timestamp,
        PhoneNumber |-> value.metadata.display_phone_number,
        PhoneID |-> value.metadata.phone_number_id,
        Context |-> msg.context]

MediaMessageEvent(base, m, withCaption) ==
    [Base |-> base, MediaID |-> m.id, MimeType |-> m.mime_type, SHA256 |-> m.sha256,
     Caption |-> IF withCaption THEN m.caption ELSE <<>>]

\* The inner switch of processMessage on msg.Interactive.Type.
processInteractive(h, base, in) ==
    CASE in.type = "button_reply" ->
           IF "OnButtonReply" \in h.reg /\ ~IsNil(in.button_reply)
           THEN Ptr(Call("OnButtonReply",
                    [Base |-> base, ButtonID |-> Deref(in.button_reply).id,
                     ButtonTitle |-> Deref(in.button_reply).title]))
           ELSE Nil
      [] in.type = "list_reply" ->
           IF "OnListReply" \in h.reg /\ ~IsNil(in.list_reply)
           THEN Ptr(Call("OnListReply",
                    [Base |-> base, RowID |-> Deref(in.list_reply).id,
                     RowTitle |-> Deref(in.list_reply).title,
                     RowDescription |-> Deref(in.list_reply).description]))
           ELSE Nil
      [] OTHER -> Nil

\* The cases of the switch of processMessage on msg.Type, one operator each:
\* the invocation the case makes, or nil.
caseTextNoNilCheck(h, base, msg) ==
    IF "OnTextMessage" \in h.reg
    THEN Ptr(Call("OnTextMessage",
             [Base |-> base,
              Body |-> IF IsNil(msg.text) THEN "" ELSE Deref(msg.text).body]))
    ELSE Nil

caseText(h, base, msg) ==
    IF "OnTextMessage" \in h.reg /\ ~IsNil(msg.text)
    THEN Ptr(Call("OnTextMessage", [Base |-> base, Body |-> Deref(msg.text).body]))
    ELSE Nil

caseImage(h, base, msg) ==
    IF "OnImageMessage" \in h.reg /\ ~IsNil(msg.image)
    THEN Ptr(Call("OnImageMessage", MediaMessageEvent(base, Deref(msg.image), TRUE)))
    ELSE Nil

caseVideoAsImage(h, base, msg) ==
    IF "OnImageMessage" \in h.reg /\ ~IsNil(msg.video)
    THEN Ptr(Call("OnImageMessage", MediaMessageEvent(base, Deref(msg.video), TRUE)))
    ELSE Nil

caseVideo(h, base, msg) ==
    IF "OnVideoMessage" \in h.reg /\ ~IsNil(msg.video)
    THEN Ptr(Call("OnVideoMessage", MediaMessageEvent(base, Deref(msg.video), TRUE)))
    ELSE Nil

caseAudio(h, base, msg) ==
    IF "OnAudioMessage" \in h.reg /\ ~IsNil(msg.audio)
    THEN Ptr(Call("OnAudioMessage", MediaMessageEvent(base, Deref(msg.audio), FALSE)))
    ELSE Nil

caseDocument(h, base, msg) ==
    IF "OnDocumentMessage" \in h.reg /\ ~IsNil(msg.document)
    THEN Ptr(Call("OnDocumentMessage",
             [Base |-> base, MediaID |-> Deref(msg.document).id,
              MimeType |-> Deref(msg.document).mime_type,
              SHA256 |-> Deref(msg.document).sha256,
              Filename |-> Deref(msg.document).filename,
              Caption |-> Deref(msg.document).caption]))
    ELSE Nil

caseSticker(h, base, msg) ==
    IF "OnStickerMessage" \in h.reg /\ ~IsNil(msg.sticker)
    THEN Ptr(Call("OnStickerMessage", MediaMessageEvent(base, Deref(msg.sticker), FALSE)))
    ELSE Nil

caseLocation(h, base, msg) ==
    IF "OnLocationMessage" \in h.reg /\ ~IsNil(msg.location)
    THEN Ptr(Call("OnLocationMessage",
             [Base |-> base, Latitude |-> Deref(msg.location).latitude,
              Longitude |-> Deref(msg.location).longitude,
              Name |-> Deref(msg.location).name,
              Address |-> Deref(msg.location).address]))
    ELSE Nil

caseContacts(h, base, msg) ==
    IF "OnContactsMessage" \in h.reg /\ Len(msg.contacts) > 0
    THEN Ptr(Call("OnContactsMessage", [Base |-> base, Contacts |-> msg.contacts]))
    ELSE Nil

caseInteractive(h, base, msg) ==
    IF ~IsNil(msg.interactive)
    THEN processInteractive(h, base, Deref(msg.interactive))
    ELSE Nil

caseReaction(h, base, msg) ==
    IF "OnReactionMessage" \in h.reg /\ ~IsNil(msg.reaction)
    THEN Ptr(Call("OnReactionMessage",
             [Base |-> base, ReactedMessageID |-> Deref(msg.reaction).message_id,
              Emoji |-> Deref(msg.reaction).emoji]))
    ELSE Nil

\* Handler.processMessage: the invocation it makes for msg, or nil.
processMessage(h, msg, value) ==
    LET base == BaseMessageEvent(msg, value)
    IN CASE msg.type = MessageTypeText -> caseText(h, base, msg)
         [] msg.type = MessageTypeImage -> caseImage(h, base, msg)
         [] msg.type = MessageTypeVideo -> caseVideo(h, base, msg)
         [] msg.type = MessageTypeAudio -> caseAudio(h, base, msg)
         [] msg.type = MessageTypeDocument -> caseDocument(h, base, msg)
         [] msg.type = MessageTypeSticker -> caseSticker(h, base, msg)
         [] msg.type = MessageTypeLocation -> caseLocation(h, base, msg)
         [] msg.type = MessageTypeContacts -> caseContacts(h, base, msg)
         [] msg.type = MessageTypeInteractive -> caseInteractive(h, base, msg)
         [] msg.type = MessageTypeReaction -> caseReaction(h, base, msg)
         [] OTHER -> Nil

\* MessageStatusEvent as processStatus fills it before its switch.
MessageStatusEvent(status, value) ==
    [MessageID |-> status.id, Status |-> status.status, Timestamp |-> status.timestamp,
     RecipientID |-> status.recipient_id,
     PhoneNumber |-> value.metadata.display_phone_number,
     PhoneID |-> value.metadata.phone_number_id,
     ConversationID |->
         IF ~IsNil(status.conversation) THEN Deref(status.conversation).id ELSE "",
     ConversationType |->
         IF ~IsNil(status.conversation) THEN Deref(status.conversation).origin.type ELSE "",
     Billable |-> IF ~IsNil(status.pricing) THEN Deref(status.pricing).billable ELSE FALSE,
     PricingCategory |->
         IF ~IsNil(status.pricing) THEN Deref(status.pricing).category ELSE "",
     Errors |-> <<>>]

processStatusErrorsAlways(h, status, value) ==
    LET event == MessageStatusEvent(status, value)
        handler == CASE status.status = StatusSent -> "OnMessageSent"
                     [] status.status = StatusDelivered -> "OnMessageDelivered"
                     [] status.status = StatusRead -> "OnMessageRead"
                     [] status.status = StatusFailed -> "OnMessageFailed"
                     [] OTHER -> ""
    IN IF handler \in h.reg
       THEN Ptr(Call(handler, [event EXCEPT !.Errors = status.errors]))
       ELSE Nil

\* Handler.processStatus: the invocation it makes for status, or nil.
processStatus(h, status, value) ==
    LET event == MessageStatusEvent(status, value)
    IN CASE status.status = StatusSent ->
              IF "OnMessageSent" \in h.reg THEN Ptr(Call("OnMessageSent", event)) ELSE Nil
         [] status.status = StatusDelivered ->
              IF "OnMessageDelivered" \in h.reg
              THEN Ptr(Call("OnMessageDelivered", event)) ELSE Nil
         [] status.status = StatusRead ->
              IF "OnMessageRead" \in h.reg THEN Ptr(Call("OnMessageRead", event)) ELSE Nil
         [] status.status = StatusFailed ->
              IF "OnMessageFailed" \in h.reg
              THEN Ptr(Call("OnMessageFailed", [event EXCEPT !.Errors = status.errors]))
              ELSE Nil
         [] OTHER -> Nil

processErrorZeroMetadata(h, err, value) ==
    IF "OnError" \in h.reg
    THEN Ptr(Call("OnError", [Error |-> err, Metadata |-> WebhookMetadata]))
    ELSE Nil

\* The error loop body of processPayload.
processError(h, err, value) ==
    IF "OnError" \in h.reg
    THEN Ptr(Call("OnError", [Error |-> err, Metadata |-> value.metadata]))
    ELSE Nil

processRawPerEntry(hd, pl) ==
    IF "OnRawWebhook" \in hd.reg /\ Len(pl.entry) > 0
    THEN Ptr(Call("OnRawWebhook", pl))
    ELSE Nil

\* The head of processPayload: the invocation of the raw handler, or nil.
processRaw(hd, pl) ==
    IF "OnRawWebhook" \in hd.reg THEN Ptr(Call("OnRawWebhook", pl)) ELSE Nil

\* One element the loops of processPayload visit: its place (entry, change,
\* list, index) and the element.  list is 1 for messages, 2 for statuses and
\* 3 for errors.
Item(e, c, list, i, elem, value) ==
    [e |-> e, c |-> c, list |-> list, i |-> i, elem |-> elem, value |-> value]

ListItems(e, c, list, elems, value) ==
    [i \in 1..Len(elems) |-> Item(e, c, list, i, elems[i], value)]

changeItemsStatusFirst(e, c, change) ==
    IF change.field # "messages" THEN <<>>
    ELSE ListItems(e, c, 2, change.value.statuses, change.value)
         \o ListItems(e, c, 1, change.value.messages, change.value)
         \o ListItems(e, c, 3, change.value.errors, change.value)

\* The body of the change loop of processPayload: the elements of one change
\* in the order the three inner loops visit them.
changeItems(e, c, change) ==
    IF change.field # "messages" THEN <<>>
    ELSE ListItems(e, c, 1, change.value.messages, change.value)
         \o ListItems(e, c, 2, change.value.statuses, change.value)
         \o ListItems(e, c, 3, change.value.errors, change.value)

RECURSIVE entryItems(_, _, _)
entryItems(e, changes, c) ==
    IF c > Len(changes) THEN <<>>
    ELSE changeItems(e, c, changes[c]) \o entryItems(e, changes, c + 1)

RECURSIVE payloadItems(_, _)
\* The entry loop of processPayload from entry e on.
payloadItems(payload, e) ==
    IF e > Len(payload.entry) THEN <<>>
    ELSE entryItems(e, payload.entry[e].changes, 1) \o payloadItems(payload, e + 1)

\* The invocation processPayload makes for one element, or nil.
processItem(h, item) ==
    CASE item.list = 1 -> processMessage(h, item.elem, item.value)
      [] item.list = 2 -> processStatus(h, item.elem, item.value)
      [] OTHER -> processError(h, item.elem, item.value)

\* ------------------------------------------------------------------ outbound client

\* models.MessagingProduct.
MessagingProduct == "whatsapp"

\* errors.NewValidationError.
NewValidationError(field, message) ==
    [kind |-> "ValidationError", Field |-> field, Message |-> message]

\* errors.APIError.
APIError(code, message, type, subcode, trace, data, status) ==
    [kind |-> "APIError", Code |-> code, Message |-> message, Type |-> type,
     ErrorSubcode |-> subcode, FBTraceID |-> trace, ErrorData |-> data,
     HTTPStatusCode |-> status]

\* APIError.IsRateLimit.
IsRateLimit(e) == e.Code = 80007 \/ e.Code = 130429

IsAuthErrorCodeOnly(e) == e.Code = 190

\* APIError.IsAuthError.
IsAuthError(e) == e.Code = 190 \/ e.Type = "OAuthException"

\* APIError.IsPermissionError.
IsPermissionError(e) == e.Code = 10 \/ e.Code = 200

\* An error made by fmt.Errorf, or returned by the transport.
Errorf(text) == [kind |-> "error", Message |-> text]

\* What a call returns: the response and the error (pointers), whether it
\* panicked instead, and the HTTP requests it handed to the transport.
Outcome(resp, err, wire) == [resp |-> resp, err |-> err, panic |-> FALSE, wire |-> wire]
Fail(err) == Outcome(Nil, Ptr(err), <<>>)
NilDereference == [resp |-> Nil, err |-> Nil, panic |-> TRUE, wire |-> <<>>]

\* client.New(cfg): the client (nil on error) and the error.
New(cfg) ==
    IF ~IsNil(Validate(cfg)) THEN [client |-> Nil, err |-> Validate(cfg)]
    ELSE [client |-> Ptr([config |-> cfg]), err |-> Nil]

\* Config.GetMessagesURL, with the defaults of DefaultConfig.
GetMessagesURL(cfg) ==
    "https://graph.facebook.com" \o "/" \o "v18.0" \o "/" \o cfg.PhoneNumberID \o "/messages"

\* models.MessageRequest as the send operations fill it before they set the
\* content: every content field nil.
MessageRequest(to, type) ==
    [MessagingProduct |-> MessagingProduct, RecipientType |-> "individual", To |-> to,
     Type |-> type, Context |-> Nil, Text |-> Nil, Image |-> Nil, Audio |-> Nil,
     Video |-> Nil, Document |-> Nil, Sticker |-> Nil, Location |-> Nil,
     Contacts |-> <<>>, Interactive |-> Nil, Template |-> Nil, Reaction |-> Nil]

\* The content fields of models.MessageRequest, by JSON key.
ContentFields ==
    [text |-> "Text", image |-> "Image", audio |-> "Audio", video |-> "Video",
     document |-> "Document", sticker |-> "Sticker", location |-> "Location",
     contacts |-> "Contacts", interactive |-> "Interactive", template |-> "Template",
     reaction |-> "Reaction"]

\* json.Marshal of a MessageRequest: the keys of the object (omitempty drops
\* an empty recipient_type, a nil pointer and an empty contacts list) and the
\* values.
Marshal(req) ==
    [keys |-> {"messaging_product", "to", "type"}
              \cup (IF req.RecipientType # "" THEN {"recipient_type"} ELSE {})
              \cup (IF ~IsNil(req.Context) THEN {"context"} ELSE {})
              \cup { k \in DOMAIN ContentFields : req[ContentFields[k]] # <<>> },
     value |-> req]

\* The body of an upstream response: its bytes (text), whether they are a
\* JSON object, and the keys "messages" and "error" of that object (empty
\* and nil when absent).
ResponseBody(text, json, messages, error) ==
    [text |-> text, json |-> json, messages |-> messages, error |-> error]

\* The object under the key "error" of an upstream error body.
ErrorPayload(code, subcode, message, type, data) ==
    [code |-> code, error_subcode |-> subcode, message |-> message, type |-> type,
     fbtrace_id |-> "trace1", error_data |-> data]

\* What the transport answers to a request: a response (its status, its
\* body, whether reading the body fails), or nil for a transport error.
Answer(status, body, readErr) == Ptr([status |-> status, body |-> body, readErr |-> readErr])

\* json.Unmarshal(respBody, &resp) for a models.MessageResponse: nil on error.
UnmarshalMessageResponse(body) ==
    IF ~body.json THEN Nil
    ELSE Ptr([Messages |-> body.messages, Error |-> body.error])

\* json.Unmarshal(body, &errResp) for an ErrorResponse: nil on error.
UnmarshalErrorResponse(body) ==
    IF ~body.json THEN Nil
    ELSE IF IsNil(body.error) THEN Ptr(ErrorPayload(0, 0, "", "", Nil))
    ELSE body.error

\* Client.parseError.
parseError(body, statusCode) ==
    LET errResp == UnmarshalErrorResponse(body)
    IN IF IsNil(errResp)
       THEN APIError(statusCode, body.text, "", 0, "", Nil, statusCode)
       ELSE APIError(Deref(errResp).code, Deref(errResp).message, Deref(errResp).type,
                     Deref(errResp).error_subcode, Deref(errResp).fbtrace_id,
                     Deref(errResp).error_data, statusCode)

\* Client.doRequest: the request handed to the transport and its answer.
doRequest(c, method, url, body, answer) ==
    [resp |-> answer,
     err |-> IF IsNil(answer) THEN Ptr(Errorf("transport error")) ELSE Nil,
     wire |-> <<[Method |-> method, URL |-> url,
                 Authorization |-> "Bearer " \o c.config.AccessToken,
                 ContentType |-> "application/json", Body |-> Marshal(body)]>>]

\* Client.doRequestRaw: the response body, or an error.
doRequestRaw(c, method, url, body, answer) ==
    LET r == doRequest(c, method, url, body, answer)
    IN IF ~IsNil(r.err) THEN [body |-> Nil, err |-> r.err, wire |-> r.wire]
       ELSE IF Deref(r.resp).readErr
       THEN [body |-> Nil, err |-> Ptr(Errorf("failed to read response body")),
             wire |-> r.wire]
       ELSE IF Deref(r.resp).status >= 400
       THEN [body |-> Nil,
             err |-> Ptr(parseError(Deref(r.resp).body, Deref(r.resp).status)),
             wire |-> r.wire]
       ELSE [body |-> Ptr(Deref(r.resp).body), err |-> Nil, wire |-> r.wire]

\* Client.doRequestJSON into a models.MessageResponse.
doRequestJSON(c, method, url, body, answer) ==
    LET raw == doRequestRaw(c, method, url, body, answer)
    IN IF ~IsNil(raw.err) THEN Outcome(Nil, raw.err, raw.wire)
       ELSE IF IsNil(UnmarshalMessageResponse(Deref(raw.body)))
       THEN Outcome(Nil, Ptr(Errorf("failed to unmarshal response")), raw.wire)
       ELSE Outcome(UnmarshalMessageResponse(Deref(raw.body)), Nil, raw.wire)

\* Client.Post.
ClientPost(c, url, body, answer) == doRequestJSON(c, "POST", url, body, answer)

sendMessageAnyRecipient(c, req, answer) ==
    IF IsNil(req) THEN NilDereference
    ELSE ClientPost(c, GetMessagesURL(c.config), Deref(req), answer)

\* Client.sendMessage.  A nil request makes the read of req.To panic.
sendMessage(c, req, answer) ==
    IF IsNil(req) THEN NilDereference
    ELSE IF Deref(req).To = ""
    THEN Fail(NewValidationError("to", "recipient phone number is required"))
    ELSE ClientPost(c, GetMessagesURL(c.config), Deref(req), answer)

\* Client.SendMessage.
SendMessage(c, req, answer) == sendMessage(c, req, answer)

\* Client.SendText.
SendText(c, to, body, previewURL, answer) ==
    IF to = "" THEN Fail(NewValidationError("to", "recipient phone number is required"))
    ELSE IF body = "" THEN Fail(NewValidationError("body", "message body is required"))
    ELSE sendMessage(c,
             Ptr([MessageRequest(to, MessageTypeText) EXCEPT
                    !.Text = Ptr([Body |-> body, PreviewURL |-> previewURL])]),
             answer)

\* Client.SendTextReply.
SendTextReply(c, to, body, replyToMessageID, answer) ==
    IF replyToMessageID = ""
    THEN Fail(NewValidationError("replyToMessageID", "message ID to reply to is required"))
    ELSE sendMessage(c,
             Ptr([MessageRequest(to, MessageTypeText) EXCEPT
                    !.Context = Ptr([MessageID |-> replyToMessageID]),
                    !.Text = Ptr([Body |-> body, PreviewURL |-> FALSE])]),
             answer)

\* validateMediaContent: nil, or the error.
validateMediaContent(media) ==
    IF IsNil(media) THEN Ptr(NewValidationError("media", "media content is required"))
    ELSE IF Deref(media).ID = "" /\ Deref(media).Link = ""
    THEN Ptr(NewValidationError("media", "either ID or Link is required"))
    ELSE Nil

\* Client.SendImage.
SendImage(c, to, media, answer) ==
    IF ~IsNil(validateMediaContent(media)) THEN Fail(Deref(validateMediaContent(media)))
    ELSE sendMessage(c, Ptr([MessageRequest(to, MessageTypeImage) EXCEPT !.Image = media]),
                     answer)

\* Client.SendVideo.
SendVideo(c, to, media, answer) ==
    IF ~IsNil(validateMediaContent(media)) THEN Fail(Deref(validateMediaContent(media)))
    ELSE sendMessage(c, Ptr([MessageRequest(to, MessageTypeVideo) EXCEPT !.Video = media]),
                     answer)

\* Client.SendAudio.
SendAudio(c, to, media, answer) ==
    IF ~IsNil(validateMediaContent(media)) THEN Fail(Deref(validateMediaContent(media)))
    ELSE sendMessage(c, Ptr([MessageRequest(to, MessageTypeAudio) EXCEPT !.Audio = media]),
                     answer)

\* Client.SendDocument.
SendDocument(c, to, doc, answer) ==
    IF IsNil(doc) THEN Fail(NewValidationError("document", "document content is required"))
    ELSE IF Deref(doc).ID = "" /\ Deref(doc).Link = ""
    THEN Fail(NewValidationError("document", "either ID or Link is required"))
    ELSE sendMessage(c,
             Ptr([MessageRequest(to, MessageTypeDocument) EXCEPT !.Document = doc]),
             answer)

SendStickerIntoImage(c, to, media, answer) ==
    IF ~IsNil(validateMediaContent(media)) THEN Fail(Deref(validateMediaContent(media)))
    ELSE sendMessage(c,
             Ptr([MessageRequest(to, MessageTypeSticker) EXCEPT !.Image = media]),
             answer)

\* Client.SendSticker.
SendSticker(c, to, media, answer) ==
    IF ~IsNil(validateMediaContent(media)) THEN Fail(Deref(validateMediaContent(media)))
    ELSE sendMessage(c,
             Ptr([MessageRequest(to, MessageTypeSticker) EXCEPT !.Sticker = media]),
             answer)

\* Client.SendLocation.
SendLocation(c, to, location, answer) ==
    IF IsNil(location)
    THEN Fail(NewValidationError("location", "location content is required"))
    ELSE IF Deref(location).Latitude = 0 /\ Deref(location).Longitude = 0
    THEN Fail(NewValidationError("location", "latitude and longitude are required"))
    ELSE sendMessage(c,
             Ptr([MessageRequest(to, MessageTypeLocation) EXCEPT !.Location = location]),
             answer)

\* Client.SendContacts.
SendContacts(c, to, contacts, answer) ==
    IF Len(contacts) = 0
    THEN Fail(NewValidationError("contacts", "at least one contact is required"))
    ELSE IF \E i \in 1..Len(contacts) : contacts[i].Name.FormattedName = ""
    THEN Fail(NewValidationError("contacts", "formatted_name is required"))
    ELSE sendMessage(c,
             Ptr([MessageRequest(to, MessageTypeContacts) EXCEPT !.Contacts = contacts]),
             answer)

\* Client.SendReaction.
SendReaction(c, to, messageID, emoji, answer) ==
    IF messageID = "" THEN Fail(NewValidationError("messageID", "message ID is required"))
    ELSE sendMessage(c,
             Ptr([MessageRequest(to, MessageTypeReaction) EXCEPT
                    !.Reaction = Ptr([MessageID |-> messageID, Emoji |-> emoji])]),
             answer)

\* models.InteractiveContent as the interactive operations build it: the
\* type, the body text and the action, then the header and the footer of
\* the options when they are given.
InteractiveContent(type, bodyText, action, opts) ==
    [Type |-> type,
     Header |-> IF ~IsNil(opts) THEN Deref(opts).Header ELSE Nil,
     Body |-> [Text |-> bodyText],
     Footer |-> IF ~IsNil(opts) /\ Deref(opts).Footer # ""
                THEN Ptr([Text |-> Deref(opts).Footer]) ELSE Nil,
     Action |-> action]

\* models.InteractiveAction with the fields the operations set.
InteractiveAction(buttons, button, sections, name, parameters) ==
    [Buttons |-> buttons, Button |-> button, Sections |-> sections, Name |-> name,
     Parameters |-> parameters]

SendInteractiveButtonsAnyNumber(c, to, bodyText, buttons, opts, answer) ==
    IF Len(buttons) = 0
    THEN Fail(NewValidationError("buttons", "at least one button is required"))
    ELSE sendMessage(c,
             Ptr([MessageRequest(to, MessageTypeInteractive) EXCEPT
                    !.Interactive = Ptr(InteractiveContent("button", bodyText,
                        InteractiveAction(buttons, "", <<>>, "", Nil), opts))]),
             answer)

\* Client.SendInteractiveButtons.
SendInteractiveButtons(c, to, bodyText, buttons, opts, answer) ==
    IF Len(buttons) = 0
    THEN Fail(NewValidationError("buttons", "at least one button is required"))
    ELSE IF Len(buttons) > 3
    THEN Fail(NewValidationError("buttons", "maximum 3 buttons allowed"))
    ELSE sendMessage(c,
             Ptr([MessageRequest(to, MessageTypeInteractive) EXCEPT
                    !.Interactive = Ptr(InteractiveContent("button", bodyText,
                        InteractiveAction(buttons, "", <<>>, "", Nil), opts))]),
             answer)

\* Client.SendInteractiveList.
SendInteractiveList(c, to, bodyText, buttonText, sections, opts, answer) ==
    IF Len(sections) = 0
    THEN Fail(NewValidationError("sections", "at least one section is required"))
    ELSE IF buttonText = ""
    THEN Fail(NewValidationError("buttonText", "button text is required"))
    ELSE sendMessage(c,
             Ptr([MessageRequest(to, MessageTypeInteractive) EXCEPT
                    !.Interactive = Ptr(InteractiveContent("list", bodyText,
                        InteractiveAction(<<>>, buttonText, sections, "", Nil), opts))]),
             answer)

\* Client.SendCTAButton.
SendCTAButton(c, to, bodyText, displayText, url, opts, answer) ==
    IF displayText = ""
    THEN Fail(NewValidationError("displayText", "display text is required"))
    ELSE IF url = "" THEN Fail(NewValidationError("url", "URL is required"))
    ELSE sendMessage(c,
             Ptr([MessageRequest(to, MessageTypeInteractive) EXCEPT
                    !.Interactive = Ptr(InteractiveContent("cta_url", bodyText,
                        InteractiveAction(<<>>, "", <<>>, "cta_url",
                            Ptr([DisplayText |-> displayText, URL |-> url])), opts))]),
             answer)

\* Client.SendTemplate.
SendTemplate(c, to, template, answer) ==
    IF IsNil(template)
    THEN Fail(NewValidationError("template", "template content is required"))
    ELSE IF Deref(template).Name = ""
    THEN Fail(NewValidationError("template.name", "template name is required"))
    ELSE IF Deref(template).Language.Code = ""
    THEN Fail(NewValidationError("template.language.code", "language code is required"))
    ELSE sendMessage(c,
             Ptr([MessageRequest(to, MessageTypeTemplate) EXCEPT !.Template = template]),
             answer)

\* ------------------------------------------------------------------ builders

\* TextMessageBuilder.Build, of a builder with the fields b.
TextMessageBuild(b) ==
    Ptr([MessageRequest(b.to, MessageTypeText) EXCEPT
           !.Text = Ptr([Body |-> b.body, PreviewURL |-> b.previewURL]),
           !.Context = IF b.replyTo # "" THEN Ptr([MessageID |-> b.replyTo]) ELSE Nil])

\* ButtonMessageBuilder.AddButton: the buttons of the builder afterwards.
AddButton(buttons, id, title) ==
    IF Len(buttons) < 3
    THEN Append(buttons, [Type |-> "reply", Reply |-> [ID |-> id, Title |-> title]])
    ELSE buttons

\* ButtonMessageBuilder.Build.
ButtonMessageBuild(b) ==
    Ptr([MessageRequest(b.to, MessageTypeInteractive) EXCEPT
           !.Interactive = Ptr(InteractiveContent("button", b.body,
               InteractiveAction(b.buttons, "", <<>>, "", Nil),
               Ptr([Header |-> b.header, Footer |-> b.footer])))])

\* ListMessageBuilder.Build.
ListMessageBuild(b) ==
    Ptr([MessageRequest(b.to, MessageTypeInteractive) EXCEPT
           !.Interactive = Ptr(InteractiveContent("list", b.body,
               InteractiveAction(<<>>, b.buttonText, b.sections, "", Nil),
               Ptr([Header |-> b.header, Footer |-> b.footer])))])

\* TemplateMessageBuilder.Build.
TemplateMessageBuild(b) ==
    Ptr([MessageRequest(b.to, MessageTypeTemplate) EXCEPT
           !.Template = Ptr([Name |-> b.templateName,
                             Language |-> [Code |-> b.languageCode],
                             Components |-> b.components])])

\* ------------------------------------------------------------------ inputs

\* A request body: bytes that json.Unmarshal decodes to a WebhookPayload
\* (json is a pointer to it) or rejects (json is nil; junk tells such bodies
\* apart).
JsonBody(payload) == [junk |-> 0, json |-> Ptr(payload)]
JunkBody(n) == [junk |-> n, json |-> Nil]

\* An HTTP request: the method, the three query parameters handleVerification
\* reads ("" when absent), the body, whether reading it fails, and the
\* X-Hub-Signature-256 header (empty when absent).
Request(method, mode, token, challenge, body, readErr, sig) ==
    [method |-> method, mode |-> mode, token |-> token, challenge |-> challenge,
     body |-> body, readErr |-> readErr, sig |-> sig]

\* Message ids, status ids and error titles that name their place.
IdAt(e, c, i) == <<e, c, i>>

Alice == WebhookContact("999", "Alice")
TextMessage(id) == IncomingMessage(id, "999", MessageTypeText, {"text"}, Nil)

\* A payload of one entry with one "messages" change.
OneChange(messages, statuses, errors) ==
    WebhookPayload(<<WebhookEntry(1,
        <<WebhookChange("messages", WebhookValue(<<Alice>>, messages, statuses, errors))>>)>>)

\* The payload of the end-to-end scenario A.
ScenarioA == OneChange(<<TextMessage(IdAt(1, 1, 1))>>, <<>>, <<>>)

\* A foreign payload field for a message of type t.
Foreign(t) == IF t = "text" THEN "image" ELSE "text"

\* The populated payload fields tried for a message of type t.
Populations(t) ==
    {{}, {Foreign(t)}} \cup
    (IF t \in PayloadKinds \ {"interactive"} THEN {{t}, {t, Foreign(t)}} ELSE {})

\* Messages of every type, with the type's payload present or absent.
MessagePool ==
    UNION { { IncomingMessage(IdAt(1, 1, 1), "999", t, pop, Nil) : pop \in Populations(t) } :
              t \in MessageTypes }
    \cup { IncomingMessage(IdAt(1, 1, 1), "999", MessageTypeInteractive, pop, Ptr(in)) :
             pop \in {{}, {"text"}}, in \in Interactives }
    \cup { IncomingMessage(IdAt(1, 1, 1), "999", MessageTypeText, {"text"}, Ptr(in)) :
             in \in {IncomingInteractive("button_reply", TRUE, TRUE)} }

StatusValues == {StatusSent, StatusDelivered, StatusRead, StatusFailed, "deleted"}

StatusPool ==
    { MessageStatusUpdate(IdAt(1, 1, 1), st, errs, full) :
        st \in StatusValues, errs \in {<<>>, <<WebhookError(131026, IdAt(1, 1, 1))>>}, full \in BOOLEAN }

\* Contact lists for a message from "999": without the sender, with the
\* sender after another contact, and with the sender twice under two names.
Bob == WebhookContact("111", "Bob")
Alicia == WebhookContact("999", "Alicia")
ContactLists ==
    {<<>>, <<Bob>>, <<Bob, Alice>>, <<Alice, Alicia>>, <<Alicia, Alice>>,
     <<Bob, Alicia, Bob, Alice>>}

\* A message of each of two types under each contact list, and a payload
\* whose sender is a contact of the next change only.
ContactPayloads ==
    { WebhookPayload(<<WebhookEntry(1,
          <<WebhookChange("messages", WebhookValue(cs, <<m>>, <<>>, <<>>))>>)>>) :
        cs \in ContactLists,
        m \in {TextMessage(IdAt(1, 1, 1)),
               IncomingMessage(IdAt(1, 1, 1), "999", MessageTypeImage, {"image"}, Nil)} }
    \cup {WebhookPayload(<<WebhookEntry(1,
              <<WebhookChange("messages",
                              WebhookValue(<<Bob>>, <<TextMessage(IdAt(1, 1, 1))>>, <<>>, <<>>)),
                WebhookChange("messages", WebhookValue(<<Alice>>, <<>>, <<>>, <<>>))>>)>>)}

\* Payloads with a single message or a single status, and payloads in which
\* a text message follows a message that has no payload at all.
TypePayloads ==
    ContactPayloads \cup
    { OneChange(<<m>>, <<>>, <<>>) : m \in MessagePool }
    \cup { OneChange(<<>>, <<st>>, <<>>) : st \in StatusPool }
    \cup { OneChange(<<IncomingMessage(IdAt(1, 1, 1), "999", t, {}, Nil),
                       TextMessage(IdAt(1, 1, 2))>>, <<>>, <<>>) : t \in MessageTypes }

\* The phone number id of the metadata of the change at place (e, c).
PhoneIDAt(e, c) == "phone" \o ToString(e) \o ToString(c)

\* A change at place (e, c) with nm messages, ns statuses and ne errors, and
\* metadata of its own.
ShapedChange(e, c, field, nm, ns, ne) ==
    WebhookChange(field,
        [WebhookValue(<<Alice>>,
            [i \in 1..nm |-> TextMessage(IdAt(e, c, i))],
            [i \in 1..ns |-> MessageStatusUpdate(IdAt(e, c, i), StatusDelivered, <<>>, FALSE)],
            [i \in 1..ne |-> WebhookError(131026, IdAt(e, c, i))])
         EXCEPT !.metadata.phone_number_id = PhoneIDAt(e, c)])

\* The list lengths tried in one change.
Shapes ==
    { <<n, n, n>> : n \in 0..MaxItems } \cup { <<n, 0, 0>> : n \in 1..MaxItems }
    \cup { <<0, n, 0>> : n \in 1..MaxItems } \cup { <<0, 0, n>> : n \in 1..MaxItems }

\* Which changes of a payload carry the field "messages": all of them, all
\* but the first of each entry, or none.
FieldPatterns == {"all", "rest", "none"}
FieldAt(pattern, c) ==
    IF pattern = "all" \/ (pattern = "rest" /\ c > 1) THEN "messages" ELSE "account_update"

\* Payloads of ne entries of nc changes each, every change of the same shape.
ShapedPayload(ne, nc, shape, pattern) ==
    WebhookPayload(
        [e \in 1..ne |-> WebhookEntry(e,
            [c \in 1..nc |->
                ShapedChange(e, c, FieldAt(pattern, c), shape[1], shape[2], shape[3])])])

OrderPayloads ==
    { ShapedPayload(ne, nc, shape, pattern) :
        ne \in 0..MaxEntries, nc \in 0..MaxChanges, shape \in Shapes,
        pattern \in FieldPatterns }

\* A small payload with two messages, a status and an error.
MixedPayload ==
    OneChange(<<TextMessage(IdAt(1, 1, 1)), TextMessage(IdAt(1, 1, 2))>>,
              <<MessageStatusUpdate(IdAt(1, 1, 1), StatusFailed,
                                    <<WebhookError(131026, IdAt(1, 1, 1))>>, TRUE)>>,
              <<WebhookError(131026, IdAt(1, 1, 1))>>)

HttpBodies == {JunkBody(1), JsonBody(WebhookPayload(<<>>)), JsonBody(ScenarioA)}

\* Every body of the model, numbered: the number stands for the bytes.
Bodies ==
    LET types == SetToSeq(MessageTypes)
        sizes == SetToSeq((0..MaxEntries) \X (0..MaxChanges))
        byType == [n \in 1..Len(types) |->
                     SetToSeq({ JsonBody(OneChange(<<m>>, <<>>, <<>>)) :
                                  m \in { x \in MessagePool : x.type = types[n] } })]
        bySize == [n \in 1..Len(sizes) |->
                     SetToSeq({ JsonBody(ShapedPayload(sizes[n][1], sizes[n][2], sh, pat)) :
                                  sh \in Shapes, pat \in FieldPatterns })]
    IN SetToSeq(HttpBodies \cup {JsonBody(MixedPayload)})
       \o SetToSeq({ JsonBody(OneChange(<<>>, <<st>>, <<>>)) : st \in StatusPool })
       \o SetToSeq({ JsonBody(p) : p \in { x \in TypePayloads :
                          Len(x.entry[1].changes[1].value.messages) > 1 } })
       \o SetToSeq({ JsonBody(p) : p \in ContactPayloads })
       \o Flatten(byType) \o Flatten(bySize)
BodyNo(body) == IndexOf(Bodies, body)

\* The header a sender that knows secret computes for body.
Sign(body, secret) == SigPrefix \o EncodeToString(MacSum(BodyNo(body), secret))

Get(mode, token, challenge) == Request("GET", mode, token, challenge, JunkBody(0), FALSE, <<>>)
Post(body, sig) == Request("POST", "", "", "", body, FALSE, sig)
PostUnreadable == Request("POST", "", "", "", JunkBody(0), TRUE, <<>>)
Put == Request("PUT", "", "", "", JunkBody(0), FALSE, <<>>)

\* The signature headers tried with a body: absent, the bare prefix, the MAC
\* under each secret with and without the prefix, the MAC of the other
\* bodies, a doubled prefix, another seven-character prefix, upper-case
\* digits, and a MAC cut short or extended by one digit.
Headers(body) ==
    {<<>>, SigPrefix}
    \cup { Sign(body, s) : s \in {Secrets[i] : i \in 1..Len(Secrets)} }
    \cup { StripAlways(Sign(body, s)) : s \in {Secrets[i] : i \in 1..Len(Secrets)} }
    \cup { Sign(b, "s1") : b \in HttpBodies }
    \cup { SigPrefix \o Sign(body, "s1"),
           <<"S","H","A","2","5","6","=">> \o StripAlways(Sign(body, "s1")),
           SigPrefix \o EncodeWith(UpperDigits, MacSum(BodyNo(body), "s1"), HexLen),
           SubSeq(Sign(body, "s1"), 1, PrefixLen + HexLen - 1),
           Sign(body, "s1") \o <<"0">> }

HttpRequests ==
    { Get(m, t, c) : m \in {"subscribe", "unsubscribe", ""}, t \in {"tok1", "tok2", ""},
                     c \in {"c1", "c2"} }
    \cup UNION { { Post(b, sig) : sig \in Headers(b) } : b \in HttpBodies }
    \cup {PostUnreadable, Put}

\* A correctly signed delivery of a payload.
Deliver(payload) == Post(JsonBody(payload), Sign(JsonBody(payload), "s1"))

CommonRequests == {Get("subscribe", "tok1", "c1"), Put}
TypeRequests == { Deliver(p) : p \in TypePayloads } \cup CommonRequests
\* Deliveries that fail locally: a signed body that does not decode, and a
\* payload with errors in it signed under another secret or not at all.
FailedRequests ==
    {Post(JunkBody(1), Sign(JunkBody(1), "s1")),
     Post(JsonBody(MixedPayload), Sign(JsonBody(MixedPayload), "s2")),
     Post(JsonBody(MixedPayload), <<>>)}
OrderRequests == { Deliver(p) : p \in OrderPayloads } \cup FailedRequests \cup CommonRequests
ConcRequests == {Deliver(MixedPayload)} \cup CommonRequests

\* Configurations: each required value present or empty.
Configs ==
    { Config(phone, access, verify, secret) :
        phone \in {"", "100"}, access \in {"", "token"}, verify \in {"", "tok1"},
        secret \in {"", "s1"} }
GoodConfig == Config("100", "token", "tok1", "s1")

\* The options given to NewHandler: none, or WithSignatureValidation(v).
Options == {<<>>, <<TRUE>>, <<FALSE>>}

\* The handler tables the application installs, and the one NewHandler makes.
EmptyTable == Table(0, {})
TableAll == Table(1, EventHandlers)
HalfA ==
    {"OnTextMessage", "OnVideoMessage", "OnDocumentMessage", "OnLocationMessage",
     "OnButtonReply", "OnReactionMessage", "OnMessageSent", "OnMessageRead", "OnError"}
TableA == Table(2, HalfA)
SetPool == {Ptr(TableAll), Ptr(TableA), Nil}

\* ------------------------------------------------------------------ outbound inputs

\* Recipients: absent or present.
Recipients == {"", "15550001"}

\* *models.MediaContent and *models.DocumentContent arguments: nil, without
\* id and link, with an id.
Medias ==
    {Nil, Ptr([ID |-> "", Link |-> "", Caption |-> "c"]),
     Ptr([ID |-> "media1", Link |-> "", Caption |-> "c"])}
Documents ==
    {Nil, Ptr([ID |-> "", Link |-> "", Caption |-> "c", Filename |-> "a.pdf"]),
     Ptr([ID |-> "", Link |-> "https://example.com/a.pdf", Caption |-> "c",
          Filename |-> "a.pdf"])}

\* *models.LocationContent arguments.
Locations ==
    {Nil} \cup { Ptr([Latitude |-> lat, Longitude |-> lon, Name |-> "home",
                      Address |-> "street"]) : lat \in {0, 7}, lon \in {0, 5} }

\* []models.ContactContent arguments: none, one named, a named and an
\* unnamed one.
ContactArgs ==
    {<<>>, <<[Name |-> [FormattedName |-> "Carol"]]>>,
     <<[Name |-> [FormattedName |-> "Carol"]], [Name |-> [FormattedName |-> ""]]>>}

\* n reply buttons, each with an id of its own.
Buttons(n) ==
    [i \in 1..n |-> [Type |-> "reply",
                     Reply |-> [ID |-> "b" \o ToString(i), Title |-> "B" \o ToString(i)]]]

\* A list section with n rows.
Section(title, n) ==
    [Title |-> title,
     Rows |-> [i \in 1..n |-> [ID |-> "r" \o ToString(i), Title |-> "Row",
                              Description |-> ""]]]

\* []models.InteractiveSection arguments: none, without rows, with a row,
\* with rows in the first section only.
SectionArgs ==
    {<<>>, <<Section("A", 0)>>, <<Section("A", 1)>>, <<Section("A", 2), Section("B", 0)>>}

\* *InteractiveOptions arguments.
OptionArgs ==
    {Nil, Ptr([Header |-> Ptr([Type |-> "text", Text |-> "head"]), Footer |-> "foot"])}

\* *models.TemplateContent arguments.
Templates ==
    {Nil} \cup { Ptr([Name |-> name, Language |-> [Code |-> code], Components |-> <<>>]) :
                   name \in {"", "hello_world"}, code \in {"", "en_US"} }

\* *models.MessageRequest arguments of SendMessage: nil, the zero request
\* with a recipient, text requests with and without a recipient, and a
\* request whose type and populated content disagree.
RawRequests ==
    {Nil,
     Ptr([MessageRequest("15550001", "") EXCEPT !.MessagingProduct = "",
                                                  !.RecipientType = ""])}
    \cup { Ptr([MessageRequest(to, MessageTypeText) EXCEPT
                  !.Text = Ptr([Body |-> "hello", PreviewURL |-> FALSE])]) :
             to \in Recipients }
    \cup { Ptr([MessageRequest(to, MessageTypeImage) EXCEPT
                  !.Text = Ptr([Body |-> "hello", PreviewURL |-> FALSE]),
                  !.Reaction = Ptr([MessageID |-> "wamid.0", Emoji |-> "+1"])]) :
             to \in Recipients }

\* The builders that are tried, by their fields at the call of Build: text
\* builders with and without body and ReplyTo, button builders after up to
\* MaxButtonsTried calls of AddButton, list builders after AddSection with
\* and without rows, template builders with and without a name.
RECURSIVE AddButtons(_)
AddButtons(n) ==
    IF n = 0 THEN <<>>
    ELSE AddButton(AddButtons(n - 1), "b" \o ToString(n), "B" \o ToString(n))
Builders ==
    { [builder |-> "TextMessageBuilder", to |-> to, body |-> body, previewURL |-> FALSE,
       replyTo |-> r] :
        to \in Recipients, body \in {"", "hello"}, r \in {"", "wamid.0"} }
    \cup { [builder |-> "ButtonMessageBuilder", to |-> to, body |-> "pick",
            header |-> head, footer |-> "", buttons |-> AddButtons(n)] :
             to \in Recipients, n \in 0..MaxButtonsTried,
             head \in {Nil, Ptr([Type |-> "text", Text |-> "head"])} }
    \cup { [builder |-> "ListMessageBuilder", to |-> to, body |-> "pick", header |-> Nil,
            footer |-> "foot", buttonText |-> "Menu", sections |-> s] :
             to \in Recipients, s \in SectionArgs }
    \cup { [builder |-> "TemplateMessageBuilder", to |-> to, templateName |-> name,
            languageCode |-> "en_US", components |-> <<>>] :
             to \in Recipients, name \in {"", "hello_world"} }

\* Build of a builder with the fields b.
Build(b) ==
    CASE b.builder = "TextMessageBuilder" -> TextMessageBuild(b)
      [] b.builder = "ButtonMessageBuilder" -> ButtonMessageBuild(b)
      [] b.builder = "ListMessageBuilder" -> ListMessageBuild(b)
      [] b.builder = "TemplateMessageBuilder" -> TemplateMessageBuild(b)

\* The calls of the send operations that are tried.
SendCalls ==
    { [op |-> "SendText", to |-> to, body |-> body, previewURL |-> p] :
        to \in Recipients, body \in {"", "hello"}, p \in BOOLEAN }
    \cup { [op |-> "SendTextReply", to |-> to, body |-> body, replyTo |-> r] :
             to \in Recipients, body \in {"", "hello"}, r \in {"", "wamid.0"} }
    \cup { [op |-> op, to |-> to, media |-> m] :
             op \in {"SendImage", "SendVideo", "SendAudio", "SendSticker"},
             to \in Recipients, m \in Medias }
    \cup { [op |-> "SendDocument", to |-> to, doc |-> doc] :
             to \in Recipients, doc \in Documents }
    \cup { [op |-> "SendLocation", to |-> to, location |-> l] :
             to \in Recipients, l \in Locations }
    \cup { [op |-> "SendContacts", to |-> to, contacts |-> cs] :
             to \in Recipients, cs \in ContactArgs }
    \cup { [op |-> "SendReaction", to |-> to, messageID |-> id, emoji |-> e] :
             to \in Recipients, id \in {"", "wamid.0"}, e \in {"", "+1"} }
    \cup { [op |-> "SendInteractiveButtons", to |-> to, bodyText |-> "pick",
            buttons |-> Buttons(n), opts |-> o] :
             to \in Recipients, n \in 0..MaxButtonsTried, o \in OptionArgs }
    \cup { [op |-> "SendInteractiveList", to |-> to, bodyText |-> "pick",
            buttonText |-> b, sections |-> s, opts |-> Nil] :
             to \in Recipients, b \in {"", "Menu"}, s \in SectionArgs }
    \cup { [op |-> "SendCTAButton", to |-> to, bodyText |-> "see", displayText |-> t,
            url |-> u, opts |-> Nil] :
             to \in Recipients, t \in {"", "Open"}, u \in {"", "https://example.com"} }
    \cup { [op |-> "SendTemplate", to |-> to, template |-> t] :
             to \in Recipients, t \in Templates }
    \cup { [op |-> "SendMessage", req |-> r] : r \in RawRequests }
    \cup { [op |-> "SendBuilt", to |-> b.to, builder |-> b, req |-> Build(b)] :
             b \in Builders }

\* The call of the operation call.op with its arguments ("SendBuilt" is
\* SendMessage given the request a builder built).
Invoke(c, call, answer) ==
    CASE call.op = "SendText" -> SendText(c, call.to, call.body, call.previewURL, answer)
      [] call.op = "SendTextReply" ->
           SendTextReply(c, call.to, call.body, call.replyTo, answer)
      [] call.op = "SendImage" -> SendImage(c, call.to, call.media, answer)
      [] call.op = "SendVideo" -> SendVideo(c, call.to, call.media, answer)
      [] call.op = "SendAudio" -> SendAudio(c, call.to, call.media, answer)
      [] call.op = "SendSticker" -> SendSticker(c, call.to, call.media, answer)
      [] call.op = "SendDocument" -> SendDocument(c, call.to, call.doc, answer)
      [] call.op = "SendLocation" -> SendLocation(c, call.to, call.location, answer)
      [] call.op = "SendContacts" -> SendContacts(c, call.to, call.contacts, answer)
      [] call.op = "SendReaction" ->
           SendReaction(c, call.to, call.messageID, call.emoji, answer)
      [] call.op = "SendInteractiveButtons" ->
           SendInteractiveButtons(c, call.to, call.bodyText, call.buttons, call.opts, answer)
      [] call.op = "SendInteractiveList" ->
           SendInteractiveList(c, call.to, call.bodyText, call.buttonText, call.sections,
                               call.opts, answer)
      [] call.op = "SendCTAButton" ->
           SendCTAButton(c, call.to, call.bodyText, call.displayText, call.url, call.opts,
                         answer)
      [] call.op = "SendTemplate" -> SendTemplate(c, call.to, call.template, answer)
      [] call.op = "SendMessage" -> SendMessage(c, call.req, answer)
      [] call.op = "SendBuilt" -> SendMessage(c, call.req, answer)

\* Upstream response bodies: a message response, an error with and without
\* error_data, and bytes that are no JSON.
MessageJSON == ResponseBody("{messages}", TRUE, <<"wamid.1">>, Nil)
ErrorJSON ==
    ResponseBody("{error}", TRUE, <<>>,
        Ptr(ErrorPayload(131026, 2494, "undeliverable", "OAuthException",
                         Ptr([messaging_product |-> "whatsapp", details |-> "why"]))))
ErrorJSONNoData ==
    ResponseBody("{error}", TRUE, <<>>, Ptr(ErrorPayload(190, 0, "expired", "", Nil)))
NotJSON == ResponseBody("<html>", FALSE, <<>>, Nil)

\* Upstream error bodies of every code the classification of an APIError
\* looks at and of codes next to them, with each type, and with a message
\* that names another class than the code does.
ErrorCodes == {0, 10, 11, 190, 200, 80007, 130429}
ErrorTypes == {"OAuthException", "GraphMethodException"}
ErrorMessages == {"rate limit hit: OAuthException", "permission denied"}
ErrorBodies ==
    { ResponseBody("{error}", TRUE, <<>>, Ptr(ErrorPayload(code, 0, message, type, Nil))) :
        code \in ErrorCodes, type \in ErrorTypes, message \in ErrorMessages }

\* HTTP statuses of upstream responses, on both sides of 300 and of 400.
Statuses == {200, 299, 300, 399, 400, 500}

\* What the transport may answer: a transport error, a response of each
\* status with each body, and responses whose body cannot be read.
Answers ==
    {Nil}
    \cup { Answer(s, b, FALSE) :
             s \in Statuses, b \in {MessageJSON, ErrorJSON, ErrorJSONNoData, NotJSON} }
    \cup { Answer(s, MessageJSON, TRUE) : s \in {200, 500} }
    \cup { Answer(400, b, FALSE) : b \in ErrorBodies }

\* ------------------------------------------------------------------ state

VARIABLES
    h,          \* the *Handler NewHandler returned (nil when it returned an error)
    handlers,   \* h.handlers
    mu,         \* h.mu: the writer holds it, or a number of readers do
    app,        \* the goroutine of the application that calls SetHandlers
    req,        \* the requests that arrive, one per delivery
    http,       \* per delivery: the goroutine serving the request, and its response
    disp,       \* per delivery: the goroutine running processPayload
    calls,      \* per delivery: the callbacks invoked so far, in order
    crashed,    \* the process died of a panic no one recovered
    client,     \* the *Client client.New returned (nil when it returned an error)
    ret,        \* the last call of a send operation: its arguments, the
                \* transport's answer and what the call returned (nil before)
    boot        \* construction: the configuration given to client.New and
                \* NewHandler, and the error each of them returned

vars == <<h, handlers, mu, app, req, http, disp, calls, crashed, client, ret, boot>>

Deliveries == DOMAIN req

\* NewHandler(cfg, opts...): the handler (nil on error) and the error.
NewHandler(cfg, opts) ==
    IF ~IsNil(ValidateForWebhook(cfg))
    THEN [h |-> Nil, err |-> ValidateForWebhook(cfg)]
    ELSE [h |-> Ptr([config |-> cfg, verifyToken |-> cfg.WebhookVerifyToken,
                     validateSig |-> IF opts = <<>> THEN TRUE ELSE opts[Len(opts)]]),
          err |-> Nil]

InitWith(cfgs, optss, reqs) ==
    /\ \E cfg \in cfgs, opts \in optss :
          /\ client = New(cfg).client
          /\ h = NewHandler(cfg, opts).h
          /\ boot = [cfg |-> cfg, clientErr |-> New(cfg).err,
                     handlerErr |-> NewHandler(cfg, opts).err]
    /\ handlers = Ptr(EmptyTable)
    /\ mu = [writer |-> FALSE, readers |-> 0]
    /\ app = [pc |-> "idle", arg |-> Nil]
    /\ req \in reqs
    /\ http = [d \in DOMAIN req |-> [pc |-> "idle", status |-> 0, body |-> ""]]
    /\ disp = [d \in DOMAIN req |-> [pc |-> "none", snap |-> Nil, k |-> 1, ret |-> 0]]
    /\ calls = [d \in DOMAIN req |-> <<>>]
    /\ crashed = FALSE
    /\ ret = Nil

Init == InitWith(Configs, Options, [1..1 -> HttpRequests])
InitTypes == InitWith({GoodConfig}, {<<>>}, [1..1 -> TypeRequests])
InitOrder == InitWith({GoodConfig}, {<<>>}, [1..1 -> OrderRequests])
InitConc == InitWith({GoodConfig}, {<<>>}, [1..MaxDeliveries -> ConcRequests])

Running == ~IsNil(h) /\ ~crashed

\* ------------------------------------------------------------------ HTTP

Response(status, body) == [status |-> status, body |-> body]

\* Handler.handleVerification: the response to a GET.
handleVerification(hd, r) ==
    IF r.mode = "subscribe" /\ r.token = hd.verifyToken
    THEN Response(200, r.challenge)
    ELSE Response(403, "Forbidden")

UnmarshalLenient(body) ==
    IF IsNil(body.json) THEN Ptr(WebhookPayload(<<>>)) ELSE body.json

\* json.Unmarshal(body, &payload): the payload, or nil on error.
Unmarshal(body) == body.json

handleWebhookAlwaysChecks(hd, r) ==
    IF r.readErr THEN 400
    ELSE IF hd.config.AppSecret # ""
            /\ ~VerifyWebhookSignature(hd.config.AppSecret, BodyNo(r.body), r.sig)
    THEN 403
    ELSE IF IsNil(Unmarshal(r.body)) THEN 400
    ELSE 200

handleWebhookDecodeFirst(hd, r) ==
    IF r.readErr THEN 400
    ELSE IF IsNil(Unmarshal(r.body)) THEN 400
    ELSE IF hd.validateSig /\ hd.config.AppSecret # ""
            /\ ~VerifyWebhookSignature(hd.config.AppSecret, BodyNo(r.body), r.sig)
    THEN 403
    ELSE 200

\* Handler.handleWebhook up to its response: the status it writes.
handleWebhook(hd, r) ==
    IF r.readErr THEN 400
    ELSE IF hd.validateSig /\ hd.config.AppSecret # ""
            /\ ~VerifyWebhookSignature(hd.config.AppSecret, BodyNo(r.body), r.sig)
    THEN 403
    ELSE IF IsNil(Unmarshal(r.body)) THEN 400
    ELSE 200

\* ServeHTTP, case GET: handleVerification writes the response and returns.
HandleVerification(d) ==
    /\ Running
    /\ http[d].pc = "idle"
    /\ req[d].method = "GET"
    /\ LET res == handleVerification(Deref(h), req[d])
       IN http' = [http EXCEPT ![d] = [pc |-> "done", status |-> res.status,
                                       body |-> res.body]]
    /\ UNCHANGED <<h, handlers, mu, app, req, disp, calls, crashed, client, ret, boot>>

\* ServeHTTP, case POST: handleWebhook up to and including its response, an
\* error response or w.WriteHeader(http.StatusOK).
HandleWebhook(d) ==
    /\ Running
    /\ http[d].pc = "idle"
    /\ req[d].method = "POST"
    /\ LET status == handleWebhook(Deref(h), req[d])
       IN http' = [http EXCEPT ![d] =
                      [pc |-> IF status = 200 THEN "acked" ELSE "done",
                       status |-> status,
                       body |-> IF status = 200 THEN ""
                                ELSE IF status = 403 THEN "Forbidden" ELSE "Bad request"]]
    /\ UNCHANGED <<h, handlers, mu, app, req, disp, calls, crashed, client, ret, boot>>

\* ServeHTTP, default case.
MethodNotAllowed(d) ==
    /\ Running
    /\ http[d].pc = "idle"
    /\ req[d].method \notin {"GET", "POST"}
    /\ http' = [http EXCEPT ![d] = [pc |-> "done", status |-> 405,
                                    body |-> "Method not allowed"]]
    /\ UNCHANGED <<h, handlers, mu, app, req, disp, calls, crashed, client, ret, boot>>

\* go h.processPayload(r.Context(), &payload)
GoProcessPayload(d) ==
    /\ Running
    /\ http[d].pc = "acked"
    /\ http' = [http EXCEPT ![d].pc = "spawned"]
    /\ disp' = [disp EXCEPT ![d].pc = "start"]
    /\ UNCHANGED <<h, handlers, mu, app, req, calls, crashed, client, ret, boot>>

returnsAfterDispatch(d) == http[d].pc = "spawned" /\ disp[d].pc = "done"

\* Whether handleWebhook can return: the go statement does not wait.
returns(d) == http[d].pc = "spawned"

\* handleWebhook returns after the go statement: the transaction completes.
HandlerReturn(d) ==
    /\ Running
    /\ returns(d)
    /\ http' = [http EXCEPT ![d].pc = "done"]
    /\ UNCHANGED <<h, handlers, mu, app, req, disp, calls, crashed, client, ret, boot>>

\* The ctx argument of processPayload is r.Context(), the context of the
\* request: the HTTP server cancels it when ServeHTTP returns, so it is
\* cancelled from the moment handleWebhook has returned.
ctxCancelled(d) == http[d].pc = "done"

\* ------------------------------------------------------------------ SetHandlers

\* Handler.SetHandlers(t): h.mu.Lock().
SetHandlersLock(t) ==
    /\ Running
    /\ app.pc = "idle"
    /\ ~mu.writer /\ mu.readers = 0
    /\ mu' = [mu EXCEPT !.writer = TRUE]
    /\ app' = [pc |-> "locked", arg |-> t]
    /\ UNCHANGED <<h, handlers, req, http, disp, calls, crashed, client, ret, boot>>

\* Handler.SetHandlers: h.handlers = handlers, and the deferred Unlock.
SetHandlersStore ==
    /\ Running
    /\ app.pc = "locked"
    /\ handlers' = app.arg
    /\ mu' = [mu EXCEPT !.writer = FALSE]
    /\ app' = [pc |-> "idle", arg |-> Nil]
    /\ UNCHANGED <<h, req, http, disp, calls, crashed, client, ret, boot>>

\* ------------------------------------------------------------------ processPayload

\* processPayload: h.mu.RLock().
RLock(d) ==
    /\ Running
    /\ disp[d].pc = "start"
    /\ ~mu.writer
    /\ mu' = [mu EXCEPT !.readers = @ + 1]
    /\ disp' = [disp EXCEPT ![d].pc = "rlocked"]
    /\ UNCHANGED <<h, handlers, app, req, http, calls, crashed, client, ret, boot>>

\* processPayload with the RUnlock deferred to its return.
SnapshotDeferUnlock(d) ==
    /\ Running
    /\ disp[d].pc = "rlocked"
    /\ disp' = [disp EXCEPT ![d].pc = "raw", ![d].snap = handlers]
    /\ UNCHANGED <<h, handlers, mu, app, req, http, calls, crashed, client, ret, boot>>

\* processPayload: handlers := h.handlers; h.mu.RUnlock().
Snapshot(d) ==
    /\ Running
    /\ disp[d].pc = "rlocked"
    /\ mu' = [mu EXCEPT !.readers = @ - 1]
    /\ disp' = [disp EXCEPT ![d].pc = "raw", ![d].snap = handlers]
    /\ UNCHANGED <<h, handlers, app, req, http, calls, crashed, client, ret, boot>>

tableLive(d) == handlers

\* The table processPayload dispatches from: its local variable handlers.
table(d) == disp[d].snap

payloadDeduplicated(d) ==
    IF \E o \in Deliveries : o # d /\ req[o].body = req[d].body /\ calls[o] # <<>>
    THEN WebhookPayload(<<>>)
    ELSE Deref(req[d].body.json)

\* The payload handleWebhook decoded for delivery d.
payload(d) == Deref(Unmarshal(req[d].body))

\* A logged invocation: the callback, the table it was taken from, the place
\* of the element it is for (zeros for the raw handler) and the event.
Invocation(tbl, call, e, c, list, i) ==
    [handler |-> call.handler, table |-> tbl.id, e |-> e, c |-> c, list |-> list,
     i |-> i, event |-> call.event]

\* processPayload: the raw handler, if set.  A nil table makes the field
\* access panic.
RawHandler(d) ==
    /\ Running
    /\ disp[d].pc = "raw"
    /\ IF IsNil(table(d))
       THEN /\ crashed' = TRUE
            /\ disp' = [disp EXCEPT ![d].pc = "nilderef"]
            /\ UNCHANGED calls
       ELSE LET call == processRaw(Deref(table(d)), payload(d))
            IN IF IsNil(call)
               THEN /\ disp' = [disp EXCEPT ![d].pc = "loop"]
                    /\ UNCHANGED <<calls, crashed>>
               ELSE /\ calls' = [calls EXCEPT ![d] = Append(@,
                                    Invocation(Deref(table(d)), Deref(call), 0, 0, 0, 0))]
                    /\ disp' = [disp EXCEPT ![d].pc = "incall"]
                    /\ UNCHANGED crashed
    /\ UNCHANGED <<h, handlers, mu, app, req, http, client, ret, boot>>

stepsWithoutWaiting(d) == disp[d].pc \in {"loop", "incall"}

\* Whether the loops of processPayload can take their next step: the
\* callbacks are plain calls, so only when none is running.
steps(d) == disp[d].pc = "loop"

\* processPayload: one iteration of the innermost loops, up to the call of
\* the callback if there is one; or the end of the loops.
LoopStep(d) ==
    /\ Running
    /\ steps(d)
    /\ LET items == payloadItems(payload(d), 1)
           k == disp[d].k
       IN IF k > Len(items)
          THEN /\ disp' = [disp EXCEPT ![d].pc = "done"]
               /\ UNCHANGED <<calls, crashed>>
          ELSE IF IsNil(table(d))
          THEN /\ crashed' = TRUE
               /\ disp' = [disp EXCEPT ![d].pc = "nilderef"]
               /\ UNCHANGED calls
          ELSE LET call == processItem(Deref(table(d)), items[k])
               IN IF IsNil(call)
                  THEN /\ disp' = [disp EXCEPT ![d].k = k + 1]
                       /\ UNCHANGED <<calls, crashed>>
                  ELSE /\ calls' = [calls EXCEPT ![d] = Append(@,
                                       Invocation(Deref(table(d)), Deref(call),
                                                  items[k].e, items[k].c, items[k].list,
                                                  items[k].i))]
                       /\ disp' = [disp EXCEPT ![d].pc = "incall", ![d].k = k + 1]
                       /\ UNCHANGED crashed
    /\ UNCHANGED <<h, handlers, mu, app, req, http, client, ret, boot>>

\* The running callback returns.
CallReturn(d) ==
    /\ Running
    /\ disp[d].pc = "incall"
    /\ disp' = [disp EXCEPT ![d].pc = "loop", ![d].ret = Len(calls[d])]
    /\ UNCHANGED <<h, handlers, mu, app, req, http, calls, crashed, client, ret, boot>>

\* The running callback blocks for ever.
CallBlock(d) ==
    /\ Running
    /\ disp[d].pc = "incall"
    /\ disp' = [disp EXCEPT ![d].pc = "blocked"]
    /\ UNCHANGED <<h, handlers, mu, app, req, http, calls, crashed, client, ret, boot>>

\* The running callback panics.  processPayload runs in a goroutine of its
\* own and nothing on its stack recovers: the runtime ends the process.
CallPanic(d) ==
    /\ Running
    /\ disp[d].pc = "incall"
    /\ disp' = [disp EXCEPT ![d].pc = "panicked"]
    /\ crashed' = TRUE
    /\ UNCHANGED <<h, handlers, mu, app, req, http, calls, client, ret, boot>>

Next ==
    \/ \E d \in Deliveries : HandleVerification(d)
    \/ \E d \in Deliveries : HandleWebhook(d)
    \/ \E d \in Deliveries : MethodNotAllowed(d)
    \/ \E d \in Deliveries : GoProcessPayload(d)
    \/ \E d \in Deliveries : HandlerReturn(d)
    \/ \E t \in SetPool : SetHandlersLock(t)
    \/ SetHandlersStore
    \/ \E d \in Deliveries : RLock(d)
    \/ \E d \in Deliveries : Snapshot(d)
    \/ \E d \in Deliveries : RawHandler(d)
    \/ \E d \in Deliveries : LoopStep(d)
    \/ \E d \in Deliveries : CallReturn(d)
    \/ \E d \in Deliveries : CallBlock(d)
    \/ \E d \in Deliveries : CallPanic(d)

Spec == Init /\ [][Next]_vars
SpecTypes == InitTypes /\ [][Next]_vars
SpecOrder == InitOrder /\ [][Next]_vars
SpecConc == InitConc /\ [][Next]_vars

\* What the Go scheduler and sync.RWMutex give: a goroutine that can run
\* does run, so the steps of ServeHTTP, of SetHandlers once it holds the
\* lock, and of processPayload outside the callbacks are taken when they
\* stay possible; RLock is not starved by writers that come and go (a
\* released RWMutex admits the waiting readers before the next writer).
\* Nothing makes a callback return.
Fairness ==
    /\ WF_vars(SetHandlersStore)
    /\ \A d \in 1..MaxDeliveries :
          /\ WF_vars(HandleVerification(d) \/ HandleWebhook(d) \/ MethodNotAllowed(d)
                     \/ GoProcessPayload(d) \/ HandlerReturn(d))
          /\ SF_vars(RLock(d) \/ Snapshot(d) \/ RawHandler(d) \/ LoopStep(d))

\* Concurrent requests, each a delivery of the scenario A payload, a
\* verification or a request of another method, for the progress of
\* deliveries next to a blocked callback.
InitFair ==
    InitWith({GoodConfig}, {<<>>},
             [1..MaxDeliveries -> {Deliver(ScenarioA)} \cup CommonRequests])

SpecConcFair == InitFair /\ [][Next]_vars /\ Fairness

\* ------------------------------------------------------------------ send operations

\* The classification of a returned error, as a caller that got an
\* *APIError asks for it: the value of each of the three predicates (none
\* holds of an error that is no APIError, or of no error).
Classify(err) ==
    IF IsNil(err) \/ Deref(err).kind # "APIError"
    THEN [rateLimit |-> FALSE, auth |-> FALSE, permission |-> FALSE]
    ELSE [rateLimit |-> IsRateLimit(Deref(err)), auth |-> IsAuthError(Deref(err)),
          permission |-> IsPermissionError(Deref(err))]

\* The application calls a send operation of the client and the call
\* returns: ret records the call, the transport's answer, the outcome and
\* the classification of the error.
\* The client keeps nothing from one call to the next (its fields are set by
\* New and never assigned again), so a behaviour makes one call.
ClientCall(call, answer) ==
    /\ ~IsNil(client)
    /\ IsNil(ret)
    /\ LET out == Invoke(Deref(client), call, answer)
       IN ret' = Ptr([call |-> call, answer |-> answer, out |-> out,
                      class |-> Classify(out.err)])
    /\ UNCHANGED <<h, handlers, mu, app, req, http, disp, calls, crashed, client, boot>>

\* Configurations of the client: complete, without the webhook values, and
\* without each of the two values client.New requires.
ClientConfigs ==
    {GoodConfig, Config("100", "token", "", ""), Config("", "token", "tok1", "s1"),
     Config("100", "", "tok1", "s1")}

InitSend == InitWith(ClientConfigs, {<<>>}, [1..1 -> {Put}])

NextSend == \E call \in SendCalls, answer \in Answers : ClientCall(call, answer)

SpecSend == InitSend /\ [][NextSend]_vars

\* ------------------------------------------------------------------ claims

Handled(d) == http[d].pc # "idle"
Accepted(d) == req[d].method = "POST" /\ http[d].status = 200
NoCallback(d) == calls[d] = <<>> /\ disp[d].pc = "none"

\* A POST whose body was read by a handler that validates signatures against
\* a non-empty app secret.
SignatureChecked(d) ==
    /\ ~IsNil(h) /\ Handled(d)
    /\ req[d].method = "POST" /\ ~req[d].readErr
    /\ Deref(h).validateSig /\ Deref(h).config.AppSecret # ""

\* The header value without a leading "sha256=", when it has one.
WithoutPrefix(sig) ==
    IF Len(sig) >= Len(SigPrefix) /\ \A i \in 1..Len(SigPrefix) : sig[i] = SigPrefix[i]
    THEN [i \in 1..(Len(sig) - Len(SigPrefix)) |-> sig[i + Len(SigPrefix)]]
    ELSE sig

SignatureMatches(d) ==
    WithoutPrefix(req[d].sig)
        = EncodeToString(MacSum(BodyNo(req[d].body), Deref(h).config.AppSecret))

C2_Verification ==
    \A d \in Deliveries :
        (~IsNil(h) /\ Handled(d) /\ req[d].method = "GET") =>
            LET ok == req[d].mode = "subscribe"
                      /\ req[d].token = Deref(h).config.WebhookVerifyToken
            IN /\ ok => http[d].status = 200 /\ http[d].body = req[d].challenge
               /\ ~ok => http[d].status = 403
               /\ req[d].token = "" => http[d].status = 403

\* C2 witness: a subscribe request without a token has been refused.
C2_Witness ==
    \E d \in Deliveries :
        /\ Handled(d) /\ req[d].method = "GET"
        /\ req[d].mode = "subscribe" /\ req[d].token = ""
        /\ http[d].status = 403

\* C3: for an accepted POST the 200 status is written before any callback of
\* the delivery starts (and before its dispatch starts at all), and the
\* handler can return, completing the transaction, whatever the dispatch is
\* doing: it never waits for a callback.
C3_AckBeforeProcess ==
    \A d \in Deliveries :
        /\ (calls[d] # <<>> \/ disp[d].pc # "none") =>
               http[d].status = 200 /\ http[d].pc \in {"spawned", "done"}
        /\ (Running /\ http[d].pc = "spawned") => ENABLED HandlerReturn(d)

\* C3 witness: the transaction of a delivery is complete with status 200
\* while a callback of that delivery blocks for ever.
C3_Witness ==
    \E d \in Deliveries :
        http[d].pc = "done" /\ http[d].status = 200 /\ disp[d].pc = "blocked"

\* C4: every callback invoked for one payload comes from one handler table,
\* the one the dispatch captured when it started, whatever SetHandlers
\* installs meanwhile.
C4_SingleSnapshot ==
    \A d \in Deliveries :
        \A n \in 1..Len(calls[d]) :
            /\ ~IsNil(disp[d].snap)
            /\ calls[d][n].table = Deref(disp[d].snap).id
            /\ calls[d][n].handler \in Deref(disp[d].snap).reg

\* C4 witness: a dispatch has made its third invocation while the installed
\* table is no longer the one it captured.
C4_Witness ==
    \E d \in Deliveries :
        /\ Len(calls[d]) >= 3 /\ disp[d].pc = "incall"
        /\ ~IsNil(handlers) /\ handlers # disp[d].snap
        /\ Deref(handlers).reg # Deref(disp[d].snap).reg

\* C5: a callback that panics stops neither the dispatch of the rest of its
\* payload nor the process: after the panic the process is still running.
C5_PanicIsolated ==
    \A d \in Deliveries : disp[d].pc = "panicked" => ~crashed

\* The invocations of delivery d made for the element at a place.
CallsAt(d, e, c, list, i) ==
    { n \in 1..Len(calls[d]) :
        calls[d][n].e = e /\ calls[d][n].c = c /\ calls[d][n].list = list
        /\ calls[d][n].i = i }

\* The places (entry, change, index) of the elements of one list of the
\* "messages" changes of the payload of an accepted delivery.
Places(d, listName) ==
    IF ~Accepted(d) THEN {}
    ELSE LET pl == payload(d)
         IN UNION { UNION {
                IF pl.entry[e].changes[c].field = "messages"
                THEN { <<e, c, i>> : i \in 1..Len(pl.entry[e].changes[c].value[listName]) }
                ELSE {} :
                c \in 1..Len(pl.entry[e].changes) } : e \in 1..Len(pl.entry) }

ElementAt(d, listName, place) ==
    payload(d).entry[place[1]].changes[place[2]].value[listName][place[3]]

\* The handler of each message type that has one, and of each reply type.
HandlerOfType ==
    [text |-> "OnTextMessage", image |-> "OnImageMessage", video |-> "OnVideoMessage",
     audio |-> "OnAudioMessage", document |-> "OnDocumentMessage",
     sticker |-> "OnStickerMessage", location |-> "OnLocationMessage",
     contacts |-> "OnContactsMessage", reaction |-> "OnReactionMessage"]
HandlerOfReply == [button_reply |-> "OnButtonReply", list_reply |-> "OnListReply"]

\* The handler the message's type selects (a pointer: nil when none).
SelectedHandler(msg) ==
    IF msg.type \in DOMAIN HandlerOfType THEN Ptr(HandlerOfType[msg.type])
    ELSE IF msg.type = "interactive" /\ ~IsNil(msg.interactive)
            /\ Deref(msg.interactive).type \in DOMAIN HandlerOfReply
    THEN Ptr(HandlerOfReply[Deref(msg.interactive).type])
    ELSE Nil

\* The payload the message's type names: the field of that name (for an
\* interactive message, the reply field named by interactive.type).
SelectedPayload(msg) ==
    IF msg.type = "contacts" THEN msg.contacts
    ELSE IF msg.type \in DOMAIN HandlerOfType THEN msg[msg.type]
    ELSE IF msg.type = "interactive" /\ ~IsNil(msg.interactive)
            /\ Deref(msg.interactive).type \in DOMAIN HandlerOfReply
    THEN Deref(msg.interactive)[Deref(msg.interactive).type]
    ELSE Nil

\* The event carries the sender, the message id and the fields of payload pl.
CarriesPayload(ev, msg, pl) ==
    /\ ev.Base.From = msg.from /\ ev.Base.MessageID = msg.id
    /\ CASE msg.type = "text" -> ev.Body = pl.body
         [] msg.type \in {"image", "video", "audio", "sticker", "document"} ->
              ev.MediaID = pl.id /\ ev.MimeType = pl.mime_type /\ ev.SHA256 = pl.sha256
         [] msg.type = "location" ->
              ev.Latitude = pl.latitude /\ ev.Longitude = pl.longitude
         [] msg.type = "contacts" -> ev.Contacts = msg.contacts
         [] msg.type = "reaction" ->
              ev.ReactedMessageID = pl.message_id /\ ev.Emoji = pl.emoji
         [] msg.type = "interactive" /\ Deref(msg.interactive).type = "button_reply" ->
              ev.ButtonID = pl.id /\ ev.ButtonTitle = pl.title
         [] msg.type = "interactive" /\ Deref(msg.interactive).type = "list_reply" ->
              ev.RowID = pl.id /\ ev.RowTitle = pl.title
         [] OTHER -> FALSE

\* Whether the dispatch of d owes the message an invocation: its type selects
\* a handler, the captured table has it, and the payload is there.
Owed(d, msg) ==
    /\ ~IsNil(SelectedHandler(msg))
    /\ ~IsNil(disp[d].snap)
    /\ Deref(SelectedHandler(msg)) \in Deref(disp[d].snap).reg
    /\ SelectedPayload(msg) # <<>>

\* The invocations made for the message at a place are right: at most one,
\* and only an owed one, of the selected handler, with the payload's fields;
\* and exactly one once the dispatch is done.
MessageDispatchedRight(d, place) ==
    LET msg == ElementAt(d, "messages", place)
        at == CallsAt(d, place[1], place[2], 1, place[3])
    IN /\ Cardinality(at) <= 1
       /\ \A n \in at :
            /\ Owed(d, msg)
            /\ calls[d][n].handler = Deref(SelectedHandler(msg))
            /\ CarriesPayload(calls[d][n].event, msg,
                              IF msg.type = "contacts" THEN Nil
                              ELSE Deref(SelectedPayload(msg)))
       /\ (disp[d].pc = "done" /\ Owed(d, msg)) => Cardinality(at) = 1

\* C6: each message of a "messages" change gets at most one invocation: of
\* the registered handler its type (or interactive.type) selects, exactly
\* once, with the matching payload's fields; none when that handler is not
\* registered or the type is not recognised.
C6_MessageDispatch ==
    \A d \in Deliveries :
        \A place \in Places(d, "messages") : MessageDispatchedRight(d, place)

\* C6 witness: a button reply that also carries a list reply and a text
\* payload has been dispatched, with every handler registered, to the
\* button-reply handler alone, with ButtonID "b1".
C6_Witness ==
    \E d \in Deliveries :
        /\ disp[d].pc = "done" /\ disp[d].snap = Ptr(TableAll)
        /\ payload(d) = OneChange(
               <<IncomingMessage(IdAt(1, 1, 1), "999", MessageTypeInteractive, {"text"},
                                 Ptr(IncomingInteractive("button_reply", TRUE, TRUE)))>>,
               <<>>, <<>>)
        /\ { calls[d][n].handler : n \in 1..Len(calls[d]) }
               = {"OnRawWebhook", "OnButtonReply"}
        /\ Len(calls[d]) = 2 /\ calls[d][2].event.ButtonID = "b1"

\* The declared type's payload is nil or absent.
NilPayload(msg) ==
    CASE msg.type = "contacts" -> msg.contacts = <<>>
      [] msg.type = "interactive" ->
           \/ IsNil(msg.interactive)
           \/ /\ Deref(msg.interactive).type = "button_reply"
              /\ IsNil(Deref(msg.interactive).button_reply)
           \/ /\ Deref(msg.interactive).type = "list_reply"
              /\ IsNil(Deref(msg.interactive).list_reply)
      [] msg.type \in PayloadKinds -> IsNil(msg[msg.type])
      [] OTHER -> FALSE

\* C7: a message whose declared type has a nil or absent payload gets no
\* invocation, and the dispatch goes on: the message after it is dispatched
\* as usual.
C7_NilPayloadSkipped ==
    \A d \in Deliveries :
        \A place \in Places(d, "messages") :
            NilPayload(ElementAt(d, "messages", place)) =>
                /\ CallsAt(d, place[1], place[2], 1, place[3]) = {}
                /\ \A next \in Places(d, "messages") :
                       (next[1] = place[1] /\ next[2] = place[2] /\ next[3] > place[3]
                        /\ disp[d].pc = "done"
                        /\ Owed(d, ElementAt(d, "messages", next)))
                       => Cardinality(CallsAt(d, next[1], next[2], 1, next[3])) = 1

\* C7 witness: with every handler registered, a text message without a text
\* payload got no invocation and the text message after it got its own.
C7_Witness ==
    \E d \in Deliveries :
        /\ disp[d].pc = "done" /\ disp[d].snap = Ptr(TableAll)
        /\ payload(d) = OneChange(
               <<IncomingMessage(IdAt(1, 1, 1), "999", MessageTypeText, {}, Nil),
                 TextMessage(IdAt(1, 1, 2))>>, <<>>, <<>>)
        /\ CallsAt(d, 1, 1, 1, 1) = {}
        /\ \E n \in CallsAt(d, 1, 1, 1, 2) : calls[d][n].handler = "OnTextMessage"

HandlerOfStatus ==
    [sent |-> "OnMessageSent", delivered |-> "OnMessageDelivered",
     read |-> "OnMessageRead", failed |-> "OnMessageFailed"]

OwedStatus(d, st) ==
    /\ st.status \in DOMAIN HandlerOfStatus
    /\ ~IsNil(disp[d].snap)
    /\ HandlerOfStatus[st.status] \in Deref(disp[d].snap).reg

\* C8: each status of a "messages" change gets exactly the registered handler
\* of its status value, once, and no other; the failed handler's event has
\* the status's error list and the other three have none; an unknown status
\* value or an unregistered handler gets nothing.
C8_StatusDispatch ==
    \A d \in Deliveries :
        \A place \in Places(d, "statuses") :
            LET st == ElementAt(d, "statuses", place)
                at == CallsAt(d, place[1], place[2], 2, place[3])
            IN /\ Cardinality(at) <= 1
               /\ \A n \in at :
                    /\ OwedStatus(d, st)
                    /\ calls[d][n].handler = HandlerOfStatus[st.status]
                    /\ calls[d][n].event.MessageID = st.id
                    /\ calls[d][n].event.Status = st.status
                    /\ calls[d][n].event.Errors
                         = IF st.status = "failed" THEN st.errors ELSE <<>>
               /\ (disp[d].pc = "done" /\ OwedStatus(d, st)) => Cardinality(at) = 1

\* C8 witness: a failed status with an error list has been dispatched to the
\* failed handler, every handler being registered, and to no other.
C8_Witness ==
    \E d \in Deliveries :
        /\ disp[d].pc = "done" /\ disp[d].snap = Ptr(TableAll)
        /\ Places(d, "statuses") = {<<1, 1, 1>>}
        /\ ElementAt(d, "statuses", <<1, 1, 1>>).status = "failed"
        /\ Len(calls[d]) = 2
        /\ calls[d][2].handler = "OnMessageFailed"
        /\ calls[d][2].event.Errors # <<>>

\* The place of the n-th invocation of d: entry, change, list, index.
PlaceOf(d, n) == <<calls[d][n].e, calls[d][n].c, calls[d][n].list, calls[d][n].i>>

\* Array order of places: by entry, then change, then messages before
\* statuses before errors, then index.
Before(p, q) ==
    \E j \in 1..4 : p[j] < q[j] /\ \A x \in 1..(j - 1) : p[x] = q[x]

\* Every element of the "messages" changes of the payload of d, as a place.
AllPlaces(d) ==
    { <<p[1], p[2], 1, p[3]>> : p \in Places(d, "messages") }
    \cup { <<p[1], p[2], 2, p[3]>> : p \in Places(d, "statuses") }
    \cup { <<p[1], p[2], 3, p[3]>> : p \in Places(d, "errors") }

\* C9: the invocations of one delivery are made in array order (entries,
\* changes within an entry, and in a change messages, then statuses, then
\* errors, each list in order), each only after the one before it returned;
\* with every handler registered a finished dispatch has visited every
\* element, so its invocations are the elements in exactly that order.
C9_ArrayOrder ==
    \A d \in Deliveries :
        /\ \A n, m \in 1..Len(calls[d]) : n < m => Before(PlaceOf(d, n), PlaceOf(d, m))
        /\ disp[d].ret >= Len(calls[d]) - 1
        /\ disp[d].pc \in {"loop", "done"} => disp[d].ret = Len(calls[d])
        /\ (disp[d].pc = "done" /\ disp[d].snap = Ptr(TableAll)) =>
               { PlaceOf(d, n) : n \in 2..Len(calls[d]) } = AllPlaces(d)

\* C9 witness: a payload of two entries of two changes, each with two
\* messages, two statuses and two errors, has been dispatched to the end
\* with every handler registered.
C9_Witness ==
    \E d \in Deliveries :
        /\ disp[d].pc = "done" /\ disp[d].snap = Ptr(TableAll)
        /\ payload(d) = ShapedPayload(2, 2, <<2, 2, 2>>, "all")
        /\ Len(calls[d]) = 25

\* Past the head of processPayload.
PastRaw(d) == disp[d].pc \in {"incall", "loop", "blocked", "panicked", "done"}

\* C10: the raw handler, when registered, is invoked once per dispatched
\* payload, with the whole payload, first: before any entry is traversed and
\* so before any other callback, however many entries the payload has.
C10_RawFirst ==
    \A d \in Deliveries :
        /\ \A n \in 1..Len(calls[d]) :
               calls[d][n].handler = "OnRawWebhook" =>
                   n = 1 /\ calls[d][n].event = payload(d)
        /\ (PastRaw(d) /\ "OnRawWebhook" \in Deref(disp[d].snap).reg) =>
               /\ Len(calls[d]) >= 1
               /\ calls[d][1].handler = "OnRawWebhook"
               /\ calls[d][1].event = payload(d)

\* C10 witness: a payload without entries has been dispatched to the end
\* and the raw handler, and nothing else, was invoked.
C10_Witness ==
    \E d \in Deliveries :
        /\ disp[d].pc = "done"
        /\ payload(d).entry = <<>>
        /\ Len(calls[d]) = 1 /\ calls[d][1].handler = "OnRawWebhook"

\* The changes of the payload of delivery d, as (entry, change) places.
ChangesOf(d) ==
    { <<e, c>> : e \in 1..MaxEntries + 1, c \in 1..MaxChanges + 1 } \cap
    UNION { { <<e, c>> : c \in 1..Len(payload(d).entry[e].changes) } :
              e \in 1..Len(payload(d).entry) }

\* C11: for an accepted payload that has changes, none of them with the
\* field "messages", the raw handler is not invoked.
C11_RawOnlyForMessages ==
    \A d \in Deliveries :
        (/\ Accepted(d)
         /\ ChangesOf(d) # {}
         /\ \A p \in ChangesOf(d) :
               payload(d).entry[p[1]].changes[p[2]].field # "messages") =>
            \A n \in 1..Len(calls[d]) : calls[d][n].handler # "OnRawWebhook"

IsPrefix(s, t) == Len(s) <= Len(t) /\ SubSeq(t, 1, Len(s)) = s

\* Two deliveries of the same bytes, each dispatched from the same table.
SameDelivery(d1, d2) ==
    /\ d1 # d2
    /\ Accepted(d1) /\ Accepted(d2)
    /\ req[d1].body = req[d2].body
    /\ disp[d1].pc \notin {"none", "start", "rlocked"}
    /\ disp[d2].pc \notin {"none", "start", "rlocked"}
    /\ disp[d1].snap = disp[d2].snap

\* C12: two deliveries of the same payload bytes are dispatched in two
\* independent passes: each invokes the same handlers with the same events
\* in the same order, whatever the other has done so far, and when both are
\* finished every handler has been invoked in the second exactly as often
\* as in the first.
C12_TwoPasses ==
    \A d1, d2 \in Deliveries :
        SameDelivery(d1, d2) =>
            /\ IsPrefix(calls[d1], calls[d2]) \/ IsPrefix(calls[d2], calls[d1])
            /\ (disp[d1].pc = "done" /\ disp[d2].pc = "done") => calls[d1] = calls[d2]

\* C12 witness: the payload with two messages, a status and an error was
\* delivered twice and both dispatches finished with every handler
\* registered, each with its five invocations.
C12_Witness ==
    \E d1, d2 \in Deliveries :
        /\ SameDelivery(d1, d2)
        /\ disp[d1].pc = "done" /\ disp[d2].pc = "done"
        /\ disp[d1].snap = Ptr(TableAll)
        /\ Len(calls[d1]) = 5 /\ Len(calls[d2]) = 5

\* C13: the ContactName of a message event is the profile name of the first
\* contact of the message's own change whose wa_id is the message's from,
\* and empty when that change has no such contact; the miss does not
\* suppress the invocation the message is owed.
C13_ContactName ==
    \A d \in Deliveries :
        \A place \in Places(d, "messages") :
            LET msg == ElementAt(d, "messages", place)
                cs == payload(d).entry[place[1]].changes[place[2]].value.contacts
                at == CallsAt(d, place[1], place[2], 1, place[3])
            IN /\ \A n \in at :
                    LET name == calls[d][n].event.Base.ContactName
                    IN \/ \E i \in 1..Len(cs) :
                            /\ cs[i].wa_id = msg.from
                            /\ \A j \in 1..(i - 1) : cs[j].wa_id # msg.from
                            /\ name = cs[i].profile.name
                       \/ /\ \A i \in 1..Len(cs) : cs[i].wa_id # msg.from
                          /\ name = ""
               /\ (disp[d].pc = "done" /\ Owed(d, msg)) => at # {}

\* C13 witness: a text message whose sender is listed twice, as Alicia and
\* then as Alice, after another contact, was delivered with the name Alicia;
\* the cases without a matching contact are reached with an empty name.
C13_Witness ==
    \E d \in Deliveries :
        /\ disp[d].pc = "done" /\ disp[d].snap = Ptr(TableAll)
        /\ payload(d).entry[1].changes[1].value.contacts = <<Bob, Alicia, Bob, Alice>>
        /\ Len(calls[d]) = 2
        /\ calls[d][2].handler = "OnTextMessage"
        /\ calls[d][2].event.Base.ContactName = "Alicia"

\* C13 witness of the miss: a text message from a sender that is no contact
\* of its change was delivered with an empty name.
C13_WitnessMiss ==
    \E d \in Deliveries :
        /\ disp[d].pc = "done" /\ disp[d].snap = Ptr(TableAll)
        /\ payload(d).entry[1].changes[1].value.contacts = <<Bob>>
        /\ Len(payload(d).entry[1].changes) = 2
        /\ Len(calls[d]) = 2
        /\ calls[d][2].handler = "OnTextMessage"
        /\ calls[d][2].event.Base.ContactName = ""

\* A POST whose body was read and does not decode as a WebhookPayload.
Undecodable(d) ==
    req[d].method = "POST" /\ ~req[d].readErr /\ IsNil(req[d].body.json)

\* The delivery got past the signature step: the step was skipped, or the
\* header matched.
PassedSignature(d) ==
    \/ ~Deref(h).validateSig
    \/ Deref(h).config.AppSecret = ""
    \/ SignatureMatches(d)

FailedLocally(d) == req[d].method = "POST" /\ Handled(d) /\ http[d].status # 200

\* C15: the error handler is invoked for the entries of value.errors of the
\* "messages" changes and for nothing else, at most once for each, with that
\* error and the metadata of its change, and exactly once for each when the
\* dispatch is done with the handler registered; a delivery that fails
\* locally (signature, decoding) is answered 400 or 403 and reaches no
\* handler at all.
C15_ErrorHandler ==
    \A d \in Deliveries :
        /\ \A n \in 1..Len(calls[d]) :
               (calls[d][n].handler = "OnError" \/ calls[d][n].list = 3) =>
                   /\ calls[d][n].handler = "OnError" /\ calls[d][n].list = 3
                   /\ <<calls[d][n].e, calls[d][n].c, calls[d][n].i>> \in Places(d, "errors")
                   /\ calls[d][n].event.Error =
                          ElementAt(d, "errors", <<calls[d][n].e, calls[d][n].c, calls[d][n].i>>)
                   /\ calls[d][n].event.Metadata =
                          payload(d).entry[calls[d][n].e].changes[calls[d][n].c].value.metadata
        /\ \A place \in Places(d, "errors") :
               /\ Cardinality(CallsAt(d, place[1], place[2], 3, place[3])) <= 1
               /\ (disp[d].pc = "done" /\ "OnError" \in Deref(disp[d].snap).reg) =>
                      Cardinality(CallsAt(d, place[1], place[2], 3, place[3])) = 1
        /\ FailedLocally(d) => http[d].status \in {400, 403} /\ NoCallback(d)

\* C15 witness: a payload of two entries of two changes with two errors each
\* was dispatched to the end with every handler registered, and the error
\* handler was invoked eight times, the last time with the metadata of the
\* last change.
C15_Witness ==
    \E d \in Deliveries :
        /\ disp[d].pc = "done" /\ disp[d].snap = Ptr(TableAll)
        /\ payload(d) = ShapedPayload(2, 2, <<0, 0, 2>>, "all")
        /\ Cardinality({ n \in 1..Len(calls[d]) : calls[d][n].handler = "OnError" }) = 8
        /\ calls[d][9].event.Metadata.phone_number_id = PhoneIDAt(2, 2)

\* C15 witness of the local failures: a payload with an error in it, signed
\* under another secret, was answered 403 with every handler registered.
C15_WitnessFailed ==
    \E d \in Deliveries :
        /\ req[d].body = JsonBody(MixedPayload)
        /\ FailedLocally(d) /\ http[d].status = 403
        /\ handlers = Ptr(TableAll)

\* The last call of a send operation, its outcome, and the error it returned.
LastCall == Deref(ret).call
LastOut == Deref(ret).out
LastErr == Deref(Deref(ret).out.err)

\* The recipient of a call is empty (for SendMessage: of its request).
EmptyRecipient(call) ==
    IF call.op = "SendMessage" THEN ~IsNil(call.req) /\ Deref(call.req).To = ""
    ELSE call.to = ""

\* The call returned a ValidationError and nothing else, and handed no
\* request to the transport.
RejectedLocally(out) ==
    /\ ~out.panic /\ IsNil(out.resp) /\ ~IsNil(out.err)
    /\ Deref(out.err).kind = "ValidationError"
    /\ out.wire = <<>>

\* C16: a call of any send operation (SendText, SendTextReply, the media
\* operations, SendDocument, SendLocation, SendContacts, SendReaction, the
\* interactive operations, SendTemplate, SendMessage) with an empty recipient
\* returns a ValidationError and issues no HTTP request; for SendText with an
\* empty recipient the error's field is "to".
C16_EmptyRecipient ==
    (~IsNil(ret) /\ EmptyRecipient(LastCall)) =>
        /\ RejectedLocally(LastOut)
        /\ LastCall.op = "SendText" => LastErr.Field = "to"

\* C16 witness: SendImage with valid media and an empty recipient, for which
\* the transport would have answered 200, returned a ValidationError on "to".
C16_Witness ==
    /\ ~IsNil(ret)
    /\ LastCall.op = "SendImage" /\ LastCall.to = "" /\ ~IsNil(LastCall.media)
    /\ Deref(LastCall.media).ID # ""
    /\ Deref(ret).answer = Answer(200, MessageJSON, FALSE)
    /\ RejectedLocally(LastOut) /\ LastErr.Field = "to"

\* The request bodies the last call put on the wire.
WireBodies == [i \in 1..Len(LastOut.wire) |-> LastOut.wire[i].Body.value]

\* C17: SendInteractiveButtons with a recipient returns a ValidationError
\* and issues no HTTP request when given no button or more than three; with
\* one, two or three buttons it issues exactly one HTTP request, whose
\* interactive action carries exactly those buttons in the given order.
C17_ButtonCount ==
    (/\ ~IsNil(ret)
     /\ LastCall.op = "SendInteractiveButtons"
     /\ LastCall.to # "") =>
        IF Len(LastCall.buttons) \in 1..3
        THEN /\ Len(LastOut.wire) = 1
             /\ WireBodies[1].Type = "interactive"
             /\ ~IsNil(WireBodies[1].Interactive)
             /\ Deref(WireBodies[1].Interactive).Type = "button"
             /\ Deref(WireBodies[1].Interactive).Action.Buttons = LastCall.buttons
        ELSE RejectedLocally(LastOut) /\ LastErr.Field = "buttons"

\* C17 witness: a call with three buttons put one request with those three
\* buttons on the wire.
C17_Witness ==
    /\ ~IsNil(ret)
    /\ LastCall.op = "SendInteractiveButtons" /\ LastCall.to # ""
    /\ LastCall.buttons = Buttons(3)
    /\ Len(LastOut.wire) = 1
    /\ Len(Deref(WireBodies[1].Interactive).Action.Buttons) = 3

\* C17 witness of the rejection: a call with four buttons was rejected.
C17_WitnessFour ==
    /\ ~IsNil(ret)
    /\ LastCall.op = "SendInteractiveButtons" /\ LastCall.to # ""
    /\ LastCall.buttons = Buttons(4)
    /\ RejectedLocally(LastOut)

\* C18: SendInteractiveList called with no sections, or with a section that
\* has no rows, returns a ValidationError and issues no HTTP request.
C18_ListSections ==
    (/\ ~IsNil(ret)
     /\ LastCall.op = "SendInteractiveList"
     /\ \/ Len(LastCall.sections) = 0
        \/ \E i \in 1..Len(LastCall.sections) : Len(LastCall.sections[i].Rows) = 0) =>
        RejectedLocally(LastOut)

\* C19: SendText and SendTextReply called with an empty body return a
\* ValidationError and issue no HTTP request.
C19_TextBody ==
    (/\ ~IsNil(ret)
     /\ LastCall.op \in {"SendText", "SendTextReply"}
     /\ LastCall.body = "") =>
        RejectedLocally(LastOut)

\* The call got a response from upstream whose status is not 2xx.
UpstreamNot2xx ==
    /\ ~IsNil(ret)
    /\ LastOut.wire # <<>>
    /\ ~IsNil(Deref(ret).answer)
    /\ Deref(Deref(ret).answer).status \notin 200..299

\* C20: a call that got an upstream response whose status is not 2xx
\* returns no response value but an APIError that carries that status.
C20_Not2xxIsAPIError ==
    UpstreamNot2xx =>
        /\ IsNil(LastOut.resp)
        /\ ~IsNil(LastOut.err)
        /\ LastErr.kind = "APIError"
        /\ LastErr.HTTPStatusCode = Deref(Deref(ret).answer).status

\* C21: a call of a send operation yields exactly one outcome, a response
\* with a nil error or a nil response with an error, and hands at most one
\* HTTP request to the transport.
C21_OneOutcome ==
    ~IsNil(ret) =>
        /\ ~LastOut.panic
        /\ \/ ~IsNil(LastOut.resp) /\ IsNil(LastOut.err)
           \/ IsNil(LastOut.resp) /\ ~IsNil(LastOut.err)
        /\ Len(LastOut.wire) <= 1

\* C22: every request body a send operation puts on the wire, SendMessage
\* included, has messaging_product equal to "whatsapp".
C22_ProductOnWire ==
    ~IsNil(ret) =>
        \A i \in 1..Len(LastOut.wire) :
            /\ "messaging_product" \in LastOut.wire[i].Body.keys
            /\ WireBodies[i].MessagingProduct = "whatsapp"

\* The last call returned an APIError.
ReturnedAPIError == ~IsNil(ret) /\ ~IsNil(LastOut.err) /\ LastErr.kind = "APIError"

\* C23: of a returned APIError, IsRateLimit holds exactly when the code is
\* 80007 or 130429, IsAuthError exactly when the code is 190 or the type is
\* "OAuthException", IsPermissionError exactly when the code is 10 or 200;
\* the message text changes none of them.
C23_Classification ==
    ReturnedAPIError =>
        /\ Deref(ret).class.rateLimit <=> LastErr.Code \in {80007, 130429}
        /\ Deref(ret).class.auth <=> (LastErr.Code = 190 \/ LastErr.Type = "OAuthException")
        /\ Deref(ret).class.permission <=> LastErr.Code \in {10, 200}

\* C23 witness: an APIError of code 0 and type "OAuthException", whose
\* message speaks of a rate limit, is an authentication error and neither a
\* rate limit nor a permission error.
C23_Witness ==
    /\ ReturnedAPIError
    /\ LastErr.Code = 0 /\ LastErr.Type = "OAuthException"
    /\ LastErr.Message = "rate limit hit: OAuthException"
    /\ Deref(ret).class = [rateLimit |-> FALSE, auth |-> TRUE, permission |-> FALSE]

\* C23 witness of the codes: errors of code 130429 and of code 200 with
\* another type are a rate limit and a permission error only.
C23_WitnessRate ==
    /\ ReturnedAPIError
    /\ LastErr.Code = 130429 /\ LastErr.Type = "GraphMethodException"
    /\ Deref(ret).class = [rateLimit |-> TRUE, auth |-> FALSE, permission |-> FALSE]

\* C24: client.New returns an error and no client when the phone number id
\* or the access token of the configuration is empty, and a client and no
\* error otherwise, whatever the verify token; NewHandler returns an error
\* and no handler when one of those two or the verify token is empty, and a
\* handler and no error otherwise.
C24_Construction ==
    LET missing == boot.cfg.PhoneNumberID = "" \/ boot.cfg.AccessToken = ""
        missingForWebhook == missing \/ boot.cfg.WebhookVerifyToken = ""
    IN /\ IF missing THEN IsNil(client) /\ ~IsNil(boot.clientErr)
                     ELSE ~IsNil(client) /\ IsNil(boot.clientErr)
       /\ IF missingForWebhook THEN IsNil(h) /\ ~IsNil(boot.handlerErr)
                               ELSE ~IsNil(h) /\ IsNil(boot.handlerErr)

\* C24 witness: with a phone number id and an access token but no verify
\* token, client.New gave a client and NewHandler gave an error.
C24_Witness ==
    /\ boot.cfg.PhoneNumberID # "" /\ boot.cfg.AccessToken # ""
    /\ boot.cfg.WebhookVerifyToken = ""
    /\ ~IsNil(client) /\ IsNil(boot.clientErr)
    /\ IsNil(h) /\ ~IsNil(boot.handlerErr)

\* C24 witness of the failure: without an access token neither was made.
C24_WitnessMissing ==
    /\ boot.cfg.PhoneNumberID # "" /\ boot.cfg.AccessToken = ""
    /\ boot.cfg.WebhookVerifyToken # ""
    /\ IsNil(client) /\ ~IsNil(boot.clientErr)
    /\ IsNil(h) /\ ~IsNil(boot.handlerErr)

\* A callback of delivery d is running (blocked ones included).
InCallback(d) == disp[d].pc \in {"incall", "blocked"}

\* C25: the context handed to the callbacks of a delivery is not cancelled
\* by the completion of the HTTP transaction that delivered the payload:
\* while a callback runs, the context it was given is not cancelled.
C25_ContextOutlivesRequest ==
    \A d \in Deliveries : InCallback(d) => ~ctxCancelled(d)

\* The handler-table lock is held exactly by SetHandlers between its Lock
\* and its Unlock and by the dispatches between RLock and RUnlock: by no
\* dispatch that is in a callback, or waiting, or done.
LockHolders ==
    /\ mu.writer <=> app.pc = "locked"
    /\ mu.readers = Cardinality({ d \in Deliveries : disp[d].pc = "rlocked" })

\* The dispatch of delivery d is between callbacks: at a step of
\* processPayload itself.
BetweenCallbacks(d) == disp[d].pc \in {"start", "rlocked", "raw", "loop"}

\* Delivery d is settled: its request was answered and ServeHTTP returned,
\* and its dispatch is not at a step of processPayload itself (none was
\* started, or it reached its end, or it is in a callback).
Settled(d) == http[d].pc = "done" /\ ~BetweenCallbacks(d)

\* C26: the handler-table lock is never held while a callback executes.
\* Only SetHandlers inside its critical section and dispatches between
\* RLock and RUnlock hold it, so that, whatever callbacks run or block for
\* ever, a SetHandlers that took the lock completes, and every delivery is
\* answered and its dispatch goes on to its next callback or to its end,
\* unless the process crashed.
C26_NoLockInCallback ==
    /\ [](LockHolders)
    /\ []<>(app.pc = "idle" \/ crashed)
    /\ \A d \in 1..MaxDeliveries : []<>(Settled(d) \/ crashed)

\* C26 witness: a callback of one delivery blocked for ever, SetHandlers
\* holds the lock meanwhile, and the other delivery was answered 200 and
\* dispatched to its end with callbacks invoked.
C26_Witness ==
    \E d, o \in Deliveries :
        /\ disp[d].pc = "blocked"
        /\ app.pc = "locked"
        /\ http[o].status = 200 /\ disp[o].pc = "done" /\ calls[o] # <<>>
        /\ ~crashed

\* C26 witness of the replacement: the other delivery was dispatched to its
\* end from a table stored after the blocked delivery took its own.
C26_WitnessStored ==
    \E d, o \in Deliveries :
        /\ disp[d].pc = "blocked"
        /\ disp[o].pc = "done" /\ calls[o] # <<>>
        /\ calls[o][1].table # calls[d][1].table
        /\ ~crashed

\* A POST whose body was read by a handler that skips the signature step:
\* validation is disabled, or the app secret is empty.
SignatureSkipped(d) ==
    /\ ~IsNil(h) /\ Handled(d)
    /\ req[d].method = "POST" /\ ~req[d].readErr
    /\ (~Deref(h).validateSig \/ Deref(h).config.AppSecret = "")

\* C27: when signature validation is disabled or the app secret is empty,
\* the signature step is not performed: no POST is answered 403, and every
\* POST with a decodable body is answered 200 and its dispatch is started,
\* whatever its X-Hub-Signature-256 header holds.
C27_SignatureSkipped ==
    \A d \in Deliveries :
        SignatureSkipped(d) =>
            /\ http[d].status # 403
            /\ ~IsNil(Unmarshal(req[d].body)) =>
                  /\ http[d].status = 200
                  /\ http[d].pc \in {"spawned", "done"} => disp[d].pc # "none"

\* C27 witness: with validation disabled and an app secret configured, a
\* POST without the header was answered 200 and its callbacks were invoked.
C27_Witness ==
    \E d \in Deliveries :
        /\ SignatureSkipped(d)
        /\ ~Deref(h).validateSig /\ Deref(h).config.AppSecret # ""
        /\ req[d].sig = <<>>
        /\ http[d].status = 200 /\ disp[d].pc = "done" /\ calls[d] # <<>>

\* C27 witness of the empty secret: with validation enabled and no app
\* secret, a POST signed under a secret was answered 200 and dispatched.
C27_WitnessNoSecret ==
    \E d \in Deliveries :
        /\ SignatureSkipped(d)
        /\ Deref(h).validateSig /\ Deref(h).config.AppSecret = ""
        /\ req[d].sig = Sign(req[d].body, "s2")
        /\ http[d].status = 200 /\ disp[d].pc = "done" /\ calls[d] # <<>>

\* A POST handled by a handler that validates signatures against a
\* non-empty app secret (whether or not the body could be read).
ValidationActive(d) ==
    /\ ~IsNil(h) /\ Handled(d) /\ req[d].method = "POST"
    /\ Deref(h).validateSig /\ Deref(h).config.AppSecret # ""

\* The delivery skipped the signature step (validation is disabled or the
\* app secret is empty) or passed it (its body was read and the header
\* matched it).
PassedOrSkipped(d) ==
    \/ ~Deref(h).validateSig
    \/ Deref(h).config.AppSecret = ""
    \/ ~req[d].readErr /\ SignatureMatches(d)

\* C28, as stated: with signature validation active a POST whose signature
\* does not match its body is answered 403 even when the body does not
\* decode, and a POST is answered 400 only when it passed or skipped the
\* signature step.
C28_AsStated ==
    \A d \in Deliveries :
        (~IsNil(h) /\ Handled(d) /\ req[d].method = "POST") =>
            /\ (ValidationActive(d) /\ ~req[d].readErr /\ ~SignatureMatches(d)) =>
                   http[d].status = 403
            /\ http[d].status = 400 => PassedOrSkipped(d)

\* C28: a POST whose body cannot be read is answered 400 before the
\* signature step.  For a POST whose body was read the signature step
\* precedes decoding: with signature validation active a signature that does
\* not match is answered 403 even when the body does not decode, and 400 is
\* the answer only when the delivery passed or skipped the signature step
\* and its body does not decode.
C28_SignatureBeforeDecode ==
    \A d \in Deliveries :
        (~IsNil(h) /\ Handled(d) /\ req[d].method = "POST") =>
            IF req[d].readErr THEN http[d].status = 400
            ELSE /\ (ValidationActive(d) /\ ~SignatureMatches(d)) => http[d].status = 403
                 /\ http[d].status = 400 => PassedOrSkipped(d) /\ Undecodable(d)

\* C28 witness: with validation active, a body that does not decode and is
\* signed under another secret was answered 403.
C28_Witness ==
    \E d \in Deliveries :
        /\ ValidationActive(d) /\ Undecodable(d)
        /\ req[d].sig = Sign(req[d].body, "s2")
        /\ ~SignatureMatches(d)
        /\ http[d].status = 403

\* C28 witness of the read failure: with validation active, a POST whose
\* body could not be read and that has no signature header was answered
\* 400, not 403.
C28_WitnessUnreadable ==
    \E d \in Deliveries :
        /\ ValidationActive(d) /\ req[d].readErr
        /\ req[d].sig = <<>>
        /\ http[d].status = 400

\* C29: whatever table SetHandlers stored, a nil table included, the
\* dispatch of a delivery accepted afterwards does not crash, and it invokes
\* no handler when the table it dispatches from has none registered.
C29_AnyTableSafe ==
    \A d \in Deliveries :
        /\ disp[d].pc # "nilderef"
        /\ (disp[d].pc = "done" /\ ~IsNil(table(d)) /\ Deref(table(d)).reg = {}) =>
               calls[d] = <<>>

\* The content payloads a request has populated, by JSON key.
Populated(r) == { k \in DOMAIN ContentFields : r[ContentFields[k]] # <<>> }

\* The request has exactly one content payload populated: the one its type
\* names.
TypeAgrees(r) == Populated(r) = {r.Type}

\* C30: every request a typed send operation puts on the wire, and every
\* request a builder's Build returns (sent or not), has exactly one content
\* payload populated, the one named by its type; on the wire the content
\* keys of the body are that one key.
C30_TypeAgreesWithPayload ==
    ~IsNil(ret) =>
        /\ LastCall.op = "SendBuilt" => TypeAgrees(Deref(LastCall.req))
        /\ LastCall.op # "SendMessage" =>
              \A i \in 1..Len(LastOut.wire) :
                  /\ TypeAgrees(WireBodies[i])
                  /\ LastOut.wire[i].Body.keys \cap DOMAIN ContentFields
                         = {WireBodies[i].Type}

\* C30 witness: SendSticker put a request on the wire whose only content
\* key is "sticker".
C30_Witness ==
    /\ ~IsNil(ret)
    /\ LastCall.op = "SendSticker"
    /\ Len(LastOut.wire) = 1
    /\ WireBodies[1].Type = "sticker"
    /\ LastOut.wire[1].Body.keys \cap DOMAIN ContentFields = {"sticker"}

\* C30 witness of the builders: a button builder after five calls of
\* AddButton built an interactive request with three buttons, which went on
\* the wire.
C30_WitnessBuilt ==
    /\ ~IsNil(ret)
    /\ LastCall.op = "SendBuilt"
    /\ LastCall.builder.builder = "ButtonMessageBuilder"
    /\ Len(LastOut.wire) = 1
    /\ Populated(WireBodies[1]) = {"interactive"}
    /\ Len(Deref(WireBodies[1].Interactive).Action.Buttons) = 3

\* C30 witness of the raw entry point: SendMessage put a request on the wire
\* whose type is "image" and whose populated payloads are text and reaction.
C30_WitnessRaw ==
    /\ ~IsNil(ret)
    /\ LastCall.op = "SendMessage"
    /\ Len(LastOut.wire) = 1
    /\ WireBodies[1].Type = "image"
    /\ Populated(WireBodies[1]) = {"text", "reaction"}

====
